---- MODULE Spec2Model ----
\* Verification model of the interactive grid (src/components/InteractiveGrid):
\* project lookup, hover-video nonce scheme, gesture classification and the
\* zoom / navigate / unzoom state machine, with the per-frame animation step.
\*
\* Numbers.  JavaScript numbers are modelled in fixed point: world units, zoom,
\* distortion and zoomProgress are integers counting thousandths (0.75 is 750),
\* every product is rounded to the nearest thousandth the way a float product is
\* rounded to the nearest float.  Pointer positions are whole pixels.
EXTENDS Integers, Sequences, FiniteSets, TLC

VARIABLES
    threeLoaded,        \* window.THREE is present (the CDN script has loaded)
    projects,           \* props.projects
    props,              \* props.cellSize, distortionStrength, optimizeMobile, disableMobileHover
    isMobile,           \* "ontouchstart" in window
    isThreeInitialized, \* React state of useThreeSetup
    context,            \* threeContext.current (hooks/types.ts ThreeContext)
    uniforms,           \* context.plane.material.uniforms
    video,              \* context.videoRef, the hidden <video> element
    pending,            \* setVideoState calls suspended at an await
    zoomedProject,      \* React state of useInteraction
    cursor,             \* React state of useEventHandlers
    lookupId,           \* lookup harness: the cell id handed to getProjectByCellId
    lookupResult,       \* lookup harness: what getProjectByCellId returned
    probe,              \* shader harness: what the CPU and the shader make of one pixel
    link,               \* the "View Project" link: the focus effect's timer, and focus
    textureBuilds,      \* useTextureManager: atlas builds started, running, atlases disposed
    loop                \* useAnimationLoop: frame callbacks pending, frame steps this refresh

vars == <<threeLoaded, projects, props, isMobile, probe, isThreeInitialized, context, uniforms, video,
          pending, zoomedProject, cursor, lookupId, lookupResult, link, textureBuilds,
          loop>>

----------------------------------------------------------------------------
\* Bounds of the model.

\* cell coordinates handed to the lookup harness range over -MaxCoord..MaxCoord
MaxCoord == 4
\* the lookup harness tries project lists of length 0..MaxProjects
MaxProjects == 9
\* setVideoState calls issued by the video harness
MaxCalls == 4
\* atlas builds started in the texture harness
MaxBuilds == 3
\* setVideoState calls issued in the interactive specification
MaxNonce == 3
\* frames executed after the mount (uTime advances by one step per frame)
MaxFrames == 2
\* wheel and drag panning stop once targetOffset is this many world units out
MaxPan == 1
\* frames of the integrator harness
MaxSteps == 50
\* frames of the camera harness, and the setVideoState calls it may reach
MaxCameraFrames == 10
MaxCameraCalls == 5
MaxLoopFrames == 4

----------------------------------------------------------------------------
\* Values.

\* null (also an absent object); compares unequal to every record
Null == <<>>
\* undefined, as the result of indexing an array out of range
Undefined == [undefined |-> TRUE]

\* one unit of the fixed-point encoding: three decimal digits
FixedPoint == 10 * 10 * 10

Vec(a, b) == [x |-> a, y |-> b]

\* round-to-nearest quotient n / d for d > 0
Round(n, d) == (2 * n + d) \div (2 * d)

\* product of two fixed-point numbers
FxMul(a, b) == Round(a * b, FixedPoint)

Abs(n) == IF n < 0 THEN -n ELSE n

\* Math.sign
Sign(n) == IF n > 0 THEN 1 ELSE IF n < 0 THEN -1 ELSE 0

\* JavaScript a % n: the remainder takes the sign of the dividend
JsRem(a, n) == IF a >= 0 THEN a % n ELSE -((-a) % n)

\* Math.floor(n / d) for d > 0
MathFloor(n, d) == n \div d

----------------------------------------------------------------------------
\* config.ts AnimationConfig (fixed point where the source is fractional)

springStiffness == 50
damping == 750
lerpFactor == 100
scrollSpeed == 1
swipeThreshold == 50
tapThreshold == 10
zoomedInLevel == 300
defaultZoomLevel == 1000

----------------------------------------------------------------------------
\* Projects.  A project is [id, video]; video is the video URL, 0 when the
\* project has none (project.video is undefined).

Project(i, v) == [id |-> i, video |-> v]

\* a list of n projects, each with its own video
ProjectList(n) == [i \in 1..n |-> Project(i, i)]

\* hookUtils.ts getProjectByCellId with the list-length guard removed: the
\* modulo by zero gives NaN and projects[NaN] is undefined
getProjectByCellId_NoLengthGuard(id, projs) ==
    IF id = Null THEN Null
    ELSE IF Len(projs) = 0 THEN Undefined
    ELSE LET flatIndex == MathFloor(id.x, 1) + MathFloor(id.y, 1) * 3
             projectIndex == JsRem(JsRem(flatIndex, Len(projs)) + Len(projs), Len(projs))
         IN  projs[projectIndex + 1]

\* hookUtils.ts getProjectByCellId with a single JavaScript %: a negative
\* flatIndex gives a negative index and projects[-1] is undefined
getProjectByCellId_PlainRem(id, projs) ==
    IF id = Null \/ Len(projs) = 0 THEN Null
    ELSE LET flatIndex == MathFloor(id.x, 1) + MathFloor(id.y, 1) * 3
             projectIndex == JsRem(flatIndex, Len(projs))
         IN  IF projectIndex < 0 THEN Undefined ELSE projs[projectIndex + 1]

getProjectByCellId(id, projs) ==
    IF id = Null \/ Len(projs) = 0 THEN Null
    ELSE LET flatIndex == MathFloor(id.x, 1) + MathFloor(id.y, 1) * 3
             projectIndex == JsRem(JsRem(flatIndex, Len(projs)) + Len(projs), Len(projs))
         IN  projs[projectIndex + 1]

----------------------------------------------------------------------------
\* The world the handlers act on, as one record, so that a handler that calls
\* another is the composition of the two.

\* the delay of the focus effect's timer, in ms (useInteraction.ts line 28)
focusDelay == 300

\* the link before any effect has run: no timer pending, focus elsewhere.
\* timers holds the pending timers, oldest first, each with the ms elapsed
\* since its setTimeout
InitialLink == [timers |-> <<>>, focused |-> FALSE]

\* the focus effect without its cleanup: a pending timer survives the change
focusEffect_NoCleanup(previous, w) ==
    IF w.zoomedProject = previous THEN w
    ELSE IF w.zoomedProject # Null
         THEN [w EXCEPT !.link.timers = Append(@, [elapsed |-> 0])]
         ELSE w

\* line 29, the cleanup of the effect's previous run: a run for a project set
\* a timer, the newest one, and clearTimeout removes it if it is still pending
clearTimer(previous, w) ==
    IF previous # Null /\ Len(w.link.timers) > 0
    THEN [w EXCEPT !.link.timers = SubSeq(@, 1, Len(@) - 1)]
    ELSE w

\* useInteraction.ts lines 26-31, the effect on [zoomedProject, linkRef]: when
\* zoomedProject has changed with the commit, the previous run's cleanup clears
\* its timer, and a new timer is set if there is a project (the link element
\* is always rendered, index.tsx line 38)
focusEffect(previous, w) ==
    IF w.zoomedProject = previous THEN w
    ELSE IF w.zoomedProject # Null
         THEN [clearTimer(previous, w) EXCEPT !.link.timers = Append(@, [elapsed |-> 0])]
         ELSE clearTimer(previous, w)

\* useTextureManager before its effect has run: no build started, none
\* running, no atlas disposed.  A running build is [build, list]: its number
\* and the project list it loads
InitialTextures == [started |-> 0, running |-> {}, disposed |-> <<>>]

\* the animation loop before it starts: no frame callback requested, no frame
\* step applied, the component not unmounted
InitialLoop == [pending |-> 0, steps |-> 0, unmounted |-> FALSE]

World ==
    [context |-> context, uniforms |-> uniforms, video |-> video,
     pending |-> pending, zoomedProject |-> zoomedProject, cursor |-> cursor,
     isThreeInitialized |-> isThreeInitialized, link |-> link,
     textureBuilds |-> textureBuilds, loop |-> loop]

Commit(w) ==
    /\ context' = w.context
    /\ uniforms' = w.uniforms
    /\ video' = w.video
    /\ pending' = w.pending
    /\ zoomedProject' = w.zoomedProject
    /\ cursor' = w.cursor
    /\ isThreeInitialized' = w.isThreeInitialized
    /\ link' = focusEffect(zoomedProject, w).link
    /\ textureBuilds' = w.textureBuilds
    /\ loop' = w.loop
    /\ UNCHANGED <<threeLoaded, projects, props, isMobile, probe, lookupId, lookupResult>>

\* the size of the mount element, in pixels (clientWidth, clientHeight)
MountSize == Vec(200, 100)

\* props.cellSize and props.distortionStrength (App.tsx)
cellSize == 750
distortionStrength == 1000

\* the props App.tsx passes
DefaultProps ==
    [cellSize |-> cellSize, distortionStrength |-> distortionStrength,
     disableMobileHover |-> FALSE, optimizeMobile |-> TRUE]

\* useInteractiveGrid.ts: the initial threeContext
InitialContext ==
    [THREE |-> FALSE, renderer |-> FALSE, plane |-> FALSE,
     isDragging |-> FALSE, isZoomed |-> FALSE,
     zoom |-> 1000, targetZoom |-> 1000,
     distortion |-> 1000, targetDistortion |-> 1000,
     zoomProgress |-> 0, lastZoom |-> 1000,
     videoNonce |-> 0, hoveredCellId |-> Null, zoomedCellId |-> Null,
     previousMouse |-> Null, clickStart |-> Null, offset |-> Null,
     targetOffset |-> Null, offsetVelocity |-> Null, mousePos |-> Null,
     targetMousePos |-> Null, lastOffset |-> Null]

\* useThreeSetup.ts: the uniforms of the shader material
InitialUniforms ==
    [uResolution |-> Vec(0, 0), uZoom |-> 1000, uDistortionStrength |-> 1000,
     uCellSize |-> 750, uTextureCount |-> 0, uImageAtlas |-> Null, uTextAtlas |-> Null,
     uHoverEnabled |-> TRUE, uOptimizeMobile |-> TRUE,
     uHoveredCellId |-> Vec(-999, -999), uIsVideoActive |-> FALSE,
     uZoomProgress |-> 0, uTime |-> 0]

\* the setup effect without the check for window.THREE
threeSetup_NoRuntimeCheck(w) ==
    IF w.isThreeInitialized THEN w
    ELSE [w EXCEPT
            !.context = [@ EXCEPT
                !.THREE = TRUE, !.renderer = TRUE, !.plane = TRUE,
                !.previousMouse = Vec(0, 0), !.clickStart = Vec(0, 0),
                !.offset = Vec(0, 0), !.targetOffset = Vec(0, 0),
                !.offsetVelocity = Vec(0, 0),
                !.mousePos = Vec(-1 * FixedPoint, -1 * FixedPoint),
                !.targetMousePos = Vec(-1, -1), !.lastOffset = Vec(0, 0),
                !.hoveredCellId = Vec(-999, -999)],
            !.uniforms = InitialUniforms,
            !.isThreeInitialized = TRUE]

\* useThreeSetup.ts effect: aborts when window.THREE is missing
threeSetup(w) ==
    IF w.isThreeInitialized \/ ~threeLoaded THEN w
    ELSE [w EXCEPT
            !.context = [@ EXCEPT
                !.THREE = TRUE, !.renderer = TRUE, !.plane = TRUE,
                !.previousMouse = Vec(0, 0), !.clickStart = Vec(0, 0),
                !.offset = Vec(0, 0), !.targetOffset = Vec(0, 0),
                !.offsetVelocity = Vec(0, 0),
                !.mousePos = Vec(-1 * FixedPoint, -1 * FixedPoint),
                !.targetMousePos = Vec(-1, -1), !.lastOffset = Vec(0, 0),
                !.hoveredCellId = Vec(-999, -999)],
            !.uniforms = InitialUniforms,
            !.isThreeInitialized = TRUE]

\* useVideoManager.ts effect: creates the hidden video element
createVideo(w) ==
    IF ~w.isThreeInitialized THEN w
    ELSE [w EXCEPT !.video = [src |-> 0, paused |-> TRUE]]

\* useResizeObserver onResize, called once when the observer is installed
onResize(w) ==
    IF ~w.isThreeInitialized \/ ~w.context.renderer \/ ~w.context.plane THEN w
    ELSE [w EXCEPT !.uniforms.uResolution = MountSize]

\* useTextureManager.ts effect, lines 21-27 and 62: with a non-empty list it
\* starts updateData, which suspends at the load of the images; the effect
\* returns no cleanup, so a build once started runs to its end
startBuild(w, list) ==
    IF ~w.isThreeInitialized \/ Len(list) = 0 THEN w
    ELSE [w EXCEPT !.textureBuilds.started = @ + 1,
                   !.textureBuilds.running =
                       @ \cup {[build |-> w.textureBuilds.started + 1, list |-> list]}]

\* useUniforms: the scalar uniforms follow the props
useUniforms(w) ==
    IF ~w.isThreeInitialized THEN w
    ELSE [w EXCEPT !.uniforms.uCellSize = props.cellSize,
                   !.uniforms.uDistortionStrength = props.distortionStrength,
                   !.uniforms.uHoverEnabled = ~(isMobile /\ props.disableMobileHover),
                   !.uniforms.uOptimizeMobile = isMobile /\ props.optimizeMobile]

----------------------------------------------------------------------------
\* useVideoManager.ts setVideoState.  A call suspended at an await is a record
\* [nonce, cellId, newSrc, pc] in pending; pc names the await it waits at.
\* The browser decides when, and whether, load() and play() settle.

Call(n, id, src, at) == [nonce |-> n, cellId |-> id, newSrc |-> src, pc |-> at]

\* lines 71-72: after the load await, copy the cell id and call play()
afterLoad(w, c) ==
    [w EXCEPT !.uniforms.uHoveredCellId = c.cellId,
              !.video.paused = FALSE,
              !.pending = (@ \ {c}) \cup {[c EXCEPT !.pc = "play"]}]

\* lines 74-77 without the final nonce check
afterPlay_NoNonceCheck(w, c) ==
    [w EXCEPT !.uniforms.uIsVideoActive = TRUE, !.pending = @ \ {c}]

\* lines 74-77: after the play await, show the video if the nonce is current
afterPlay(w, c) ==
    IF c.nonce = w.context.videoNonce
    THEN [w EXCEPT !.uniforms.uIsVideoActive = TRUE, !.pending = @ \ {c}]
    ELSE [w EXCEPT !.pending = @ \ {c}]

\* lines 78-81: a rejected load() or play() is caught (and logged unless it is
\* an AbortError)
caught(w, c) == [w EXCEPT !.pending = @ \ {c}]

\* setVideoState without the return of line 61
setVideoState_NoSrcCheck(w, cellId) ==
    LET currentNonce == w.context.videoNonce + 1
        w1 == [w EXCEPT !.context.videoNonce = currentNonce]
    IN  IF w1.video = Null \/ ~w1.context.plane THEN w1
        ELSE
        LET project == getProjectByCellId(cellId, projects)
            newSrc == IF project = Null THEN 0 ELSE project.video
            w2 == [w1 EXCEPT !.uniforms.uIsVideoActive = FALSE,
                             !.video.paused = TRUE]
        IN  IF currentNonce # w2.context.videoNonce THEN w2
            ELSE IF w2.video.src # newSrc
            THEN [w2 EXCEPT !.video.src = newSrc,
                            !.pending = @ \cup {Call(currentNonce, cellId, newSrc, "load")}]
            ELSE afterLoad(w2, Call(currentNonce, cellId, newSrc, "load"))

\* setVideoState without the pause() of line 59
setVideoState_NoPause(w, cellId) ==
    LET currentNonce == w.context.videoNonce + 1
        w1 == [w EXCEPT !.context.videoNonce = currentNonce]
    IN  IF w1.video = Null \/ ~w1.context.plane THEN w1
        ELSE
        LET project == getProjectByCellId(cellId, projects)
            newSrc == IF project = Null THEN 0 ELSE project.video
            w2 == [w1 EXCEPT !.uniforms.uIsVideoActive = FALSE]
        IN  IF newSrc = 0 THEN w2
            ELSE IF currentNonce # w2.context.videoNonce THEN w2
            ELSE IF w2.video.src # newSrc
            THEN [w2 EXCEPT !.video.src = newSrc,
                            !.pending = @ \cup {Call(currentNonce, cellId, newSrc, "load")}]
            ELSE afterLoad(w2, Call(currentNonce, cellId, newSrc, "load"))

\* lines 46-70: the synchronous part of a call, up to its first await
setVideoState(w, cellId) ==
    LET currentNonce == w.context.videoNonce + 1
        w1 == [w EXCEPT !.context.videoNonce = currentNonce]
    IN  IF w1.video = Null \/ ~w1.context.plane THEN w1
        ELSE
        LET project == getProjectByCellId(cellId, projects)
            newSrc == IF project = Null THEN 0 ELSE project.video
            w2 == [w1 EXCEPT !.uniforms.uIsVideoActive = FALSE,
                             !.video.paused = TRUE]
        IN  IF newSrc = 0 THEN w2
            ELSE IF currentNonce # w2.context.videoNonce THEN w2
            ELSE IF w2.video.src # newSrc
            THEN [w2 EXCEPT !.video.src = newSrc,
                            !.pending = @ \cup {Call(currentNonce, cellId, newSrc, "load")}]
            ELSE afterLoad(w2, Call(currentNonce, cellId, newSrc, "load"))

----------------------------------------------------------------------------
\* hookUtils.ts screenToWorld: pixels to world coordinates (fixed point)

screenToWorld(screenPos, w) ==
    LET res == w.uniforms.uResolution
        zoom == w.context.zoom
        offset == w.context.offset
        distortion == w.context.distortion
        ndc == Vec(Round(screenPos.x * 2 * FixedPoint, res.x) - FixedPoint,
                   FixedPoint - Round(screenPos.y * 2 * FixedPoint, res.y))
        lengthSq == FxMul(ndc.x, ndc.x) + FxMul(ndc.y, ndc.y)
        factor == FixedPoint - FxMul(FxMul(distortion, 80), lengthSq)
        distorted == Vec(FxMul(ndc.x, factor), FxMul(ndc.y, factor))
        aspect == Vec(Round(res.x * FixedPoint, res.y), FixedPoint)
    IN  Vec(FxMul(FxMul(distorted.x, aspect.x), zoom) + offset.x,
            FxMul(FxMul(distorted.y, aspect.y), zoom) + offset.y)

\* the cell a world coordinate lies in: floor(world / cellSize) on each axis
cellIdOf(worldCoord, currentCellSize) ==
    Vec(MathFloor(worldCoord.x, currentCellSize),
        MathFloor(worldCoord.y, currentCellSize))

\* the corner of a cell in place of its centre
cellCentre_Corner(cellId, currentCellSize) ==
    Vec(FxMul(cellId.x * FixedPoint, currentCellSize),
        FxMul(cellId.y * FixedPoint, currentCellSize))

\* the world-space centre of a cell: (cellId + 0.5) * cellSize
cellCentre(cellId, currentCellSize) ==
    Vec(FxMul(cellId.x * FixedPoint + 500, currentCellSize),
        FxMul(cellId.y * FixedPoint + 500, currentCellSize))

----------------------------------------------------------------------------
\* useInteraction.ts

\* navigateToCell that takes the snapshot on every navigation
navigateToCell_AlwaysSnapshot(w, cellId, isInitialZoom) ==
    IF ~w.context.plane THEN w
    ELSE
    LET w1 == [w EXCEPT !.zoomedProject = getProjectByCellId(cellId, projects)]
        w2 == setVideoState(w1, cellId)
        w3 == [w2 EXCEPT !.context.lastOffset = w2.context.targetOffset,
                         !.context.lastZoom = w2.context.targetZoom,
                         !.context.targetZoom = zoomedInLevel,
                         !.context.targetDistortion = 0,
                         !.context.isZoomed = TRUE]
    IN  [w3 EXCEPT !.context.targetOffset = cellCentre(cellId, w3.uniforms.uCellSize),
                   !.context.zoomedCellId = cellId]

navigateToCell(w, cellId, isInitialZoom) ==
    IF ~w.context.plane THEN w
    ELSE
    LET w1 == [w EXCEPT !.zoomedProject = getProjectByCellId(cellId, projects)]
        w2 == setVideoState(w1, cellId)
        w3 == IF isInitialZoom
              THEN [w2 EXCEPT !.context.lastOffset = w2.context.targetOffset,
                              !.context.lastZoom = w2.context.targetZoom,
                              !.context.targetZoom = zoomedInLevel,
                              !.context.targetDistortion = 0,
                              !.context.isZoomed = TRUE]
              ELSE w2
    IN  [w3 EXCEPT !.context.targetOffset = cellCentre(cellId, w3.uniforms.uCellSize),
                   !.context.zoomedCellId = cellId]

\* unzoom that leaves zoomedCellId in place
unzoom_KeepCell(w) ==
    LET w1 == [w EXCEPT !.context.targetOffset = w.context.lastOffset,
                        !.context.targetZoom = w.context.lastZoom,
                        !.context.targetDistortion = 1000,
                        !.context.isZoomed = FALSE]
        w2 == setVideoState(w1, Null)
    IN  [w2 EXCEPT !.zoomedProject = Null]

\* unzoom that leaves the focused project in place
unzoom_KeepProject(w) ==
    LET w1 == [w EXCEPT !.context.targetOffset = w.context.lastOffset,
                        !.context.targetZoom = w.context.lastZoom,
                        !.context.targetDistortion = 1000,
                        !.context.isZoomed = FALSE,
                        !.context.zoomedCellId = Null]
    IN  setVideoState(w1, Null)

unzoom(w) ==
    LET w1 == [w EXCEPT !.context.targetOffset = w.context.lastOffset,
                        !.context.targetZoom = w.context.lastZoom,
                        !.context.targetDistortion = 1000,
                        !.context.isZoomed = FALSE,
                        !.context.zoomedCellId = Null]
        w2 == setVideoState(w1, Null)
    IN  [w2 EXCEPT !.zoomedProject = Null]

\* a tap test that lets a gesture of exactly tapThreshold through
isTap_Inclusive(delta) == delta.x * delta.x + delta.y * delta.y <= tapThreshold * tapThreshold

\* delta.length() < tapThreshold, on whole pixels
isTap(delta) == delta.x * delta.x + delta.y * delta.y < tapThreshold * tapThreshold

\* a swipe test that lets a gesture of exactly swipeThreshold through
isSwipe_Inclusive(delta) == delta.x * delta.x + delta.y * delta.y >= swipeThreshold * swipeThreshold

\* delta.length() > swipeThreshold, on whole pixels
isSwipe(delta) == delta.x * delta.x + delta.y * delta.y > swipeThreshold * swipeThreshold

\* a swipe that goes horizontal when |deltaX| = |deltaY|
swipeTarget_TieHorizontal(zoomedCellId, delta) ==
    IF Abs(delta.x) >= Abs(delta.y)
    THEN Vec(zoomedCellId.x - Sign(delta.x), zoomedCellId.y)
    ELSE Vec(zoomedCellId.x, zoomedCellId.y + Sign(delta.y))

\* the cell a swipe of delta leads to from zoomedCellId
swipeTarget(zoomedCellId, delta) ==
    IF Abs(delta.x) > Abs(delta.y)
    THEN Vec(zoomedCellId.x - Sign(delta.x), zoomedCellId.y)
    ELSE Vec(zoomedCellId.x, zoomedCellId.y + Sign(delta.y))

\* handleInteraction in which a swipe while not zoomed unzooms
handleInteraction_SwipeUnzooms(w, clickPos, delta) ==
    IF ~w.context.plane \/ ~w.context.THREE THEN w
    ELSE
    LET worldCoord == screenToWorld(clickPos, w)
        tappedCellId == cellIdOf(worldCoord, w.uniforms.uCellSize)
    IN  IF w.context.isZoomed
        THEN IF isTap(delta)
             THEN IF tappedCellId = w.context.zoomedCellId
                  THEN unzoom(w)
                  ELSE navigateToCell(w, tappedCellId, FALSE)
             ELSE IF isSwipe(delta)
             THEN navigateToCell(w, swipeTarget(w.context.zoomedCellId, delta), FALSE)
             ELSE w
        ELSE IF isTap(delta)
        THEN navigateToCell(w, tappedCellId, TRUE)
        ELSE IF isSwipe(delta)
        THEN unzoom(w)
        ELSE w

handleInteraction(w, clickPos, delta) ==
    IF ~w.context.plane \/ ~w.context.THREE THEN w
    ELSE
    LET worldCoord == screenToWorld(clickPos, w)
        tappedCellId == cellIdOf(worldCoord, w.uniforms.uCellSize)
    IN  IF w.context.isZoomed
        THEN IF isTap(delta)
             THEN IF tappedCellId = w.context.zoomedCellId
                  THEN unzoom(w)
                  ELSE navigateToCell(w, tappedCellId, FALSE)
             ELSE IF isSwipe(delta)
             THEN navigateToCell(w, swipeTarget(w.context.zoomedCellId, delta), FALSE)
             ELSE w
        ELSE IF isTap(delta)
        THEN navigateToCell(w, tappedCellId, TRUE)
        ELSE w

----------------------------------------------------------------------------
\* useEventHandlers.ts (pointer positions are event.clientX, event.clientY)

\* onPointerDown that leaves the cursor as it was
onPointerDown_KeepCursor(w, p) ==
    IF ~w.context.renderer THEN w
    ELSE [w EXCEPT !.context.isDragging = TRUE,
                   !.context.previousMouse = p,
                   !.context.clickStart = p]

onPointerDown(w, p) ==
    IF ~w.context.renderer THEN w
    ELSE [w EXCEPT !.context.isDragging = TRUE,
                   !.cursor = "grabbing",
                   !.context.previousMouse = p,
                   !.context.clickStart = p]

\* onPointerUp that leaves isDragging as it was
onPointerUp_KeepDragging(w, p) ==
    IF ~w.context.renderer THEN w
    ELSE
    LET clickEnd == p
        delta == Vec(clickEnd.x - w.context.clickStart.x,
                     clickEnd.y - w.context.clickStart.y)
        w1 == handleInteraction(w, clickEnd, delta)
    IN  [w1 EXCEPT !.cursor = "grab"]

onPointerUp(w, p) ==
    IF ~w.context.renderer THEN w
    ELSE
    LET clickEnd == p
        delta == Vec(clickEnd.x - w.context.clickStart.x,
                     clickEnd.y - w.context.clickStart.y)
        w1 == handleInteraction(w, clickEnd, delta)
    IN  [w1 EXCEPT !.context.isDragging = FALSE, !.cursor = "grab"]

onPointerMove(w, p) ==
    IF ~w.context.renderer THEN w
    ELSE [w EXCEPT !.context.targetMousePos = p]

onPointerLeave(w, p) ==
    IF ~w.context.renderer \/ ~w.context.isDragging THEN w
    ELSE onPointerUp(w, p)

\* onWheel that pans while zoomed as well
onWheel_WhileZoomed(w, event) ==
    IF ~w.context.renderer \/ ~w.context.plane THEN w
    ELSE
    LET res == w.uniforms.uResolution
        aspectRatio == Round(res.x * FixedPoint, res.y)
        deltaX == IF event.deltaMode = 1 THEN event.deltaX * 18
                  ELSE IF event.deltaMode = 2 THEN event.deltaX * MountSize.x
                  ELSE event.deltaX
        deltaY == IF event.deltaMode = 1 THEN event.deltaY * 18
                  ELSE IF event.deltaMode = 2 THEN event.deltaY * MountSize.y
                  ELSE event.deltaY
        dx == FxMul(FxMul(FxMul(deltaX * FixedPoint, scrollSpeed), w.context.zoom), aspectRatio)
        dy == FxMul(FxMul(deltaY * FixedPoint, scrollSpeed), w.context.zoom)
    IN  [w EXCEPT !.context.targetOffset = Vec(@.x + dx, @.y - dy)]

\* a wheel event is [deltaX, deltaY, deltaMode]; window.innerWidth and
\* innerHeight are taken to be the mount size
onWheel(w, event) ==
    IF ~w.context.renderer \/ w.context.isZoomed \/ ~w.context.plane THEN w
    ELSE
    LET res == w.uniforms.uResolution
        aspectRatio == Round(res.x * FixedPoint, res.y)
        deltaX == IF event.deltaMode = 1 THEN event.deltaX * 18
                  ELSE IF event.deltaMode = 2 THEN event.deltaX * MountSize.x
                  ELSE event.deltaX
        deltaY == IF event.deltaMode = 1 THEN event.deltaY * 18
                  ELSE IF event.deltaMode = 2 THEN event.deltaY * MountSize.y
                  ELSE event.deltaY
        dx == FxMul(FxMul(FxMul(deltaX * FixedPoint, scrollSpeed), w.context.zoom), aspectRatio)
        dy == FxMul(FxMul(deltaY * FixedPoint, scrollSpeed), w.context.zoom)
    IN  [w EXCEPT !.context.targetOffset = Vec(@.x + dx, @.y - dy)]

----------------------------------------------------------------------------
\* useAnimationLoop.ts animate: one frame

\* the time uniform advances by 0.016 per frame
timeStep == 16

\* a + (b - a) * lerpFactor
\* a lerp that steps past its target
Lerp_Overshoot(a, b) == a + FxMul(b - a, FixedPoint + lerpFactor)

Lerp(a, b) == a + FxMul(b - a, lerpFactor)

\* physics whose velocity is not damped
physics_Undamped(w) ==
    LET c == w.context
        force == Vec(FxMul(c.targetOffset.x - c.offset.x, springStiffness),
                     FxMul(c.targetOffset.y - c.offset.y, springStiffness))
        velocity == Vec(c.offsetVelocity.x + force.x, c.offsetVelocity.y + force.y)
    IN  [w EXCEPT
            !.context.offsetVelocity = velocity,
            !.context.offset = Vec(c.offset.x + velocity.x, c.offset.y + velocity.y),
            !.context.mousePos = Vec(Lerp(c.mousePos.x, c.targetMousePos.x * FixedPoint),
                                     Lerp(c.mousePos.y, c.targetMousePos.y * FixedPoint)),
            !.context.zoom = Lerp(c.zoom, c.targetZoom),
            !.context.distortion = Lerp(c.distortion, c.targetDistortion),
            !.context.zoomProgress = Lerp(c.zoomProgress, IF c.isZoomed THEN FixedPoint ELSE 0)]

\* physics that damps the velocity before it adds the force
physics_DampFirst(w) ==
    LET c == w.context
        force == Vec(FxMul(c.targetOffset.x - c.offset.x, springStiffness),
                     FxMul(c.targetOffset.y - c.offset.y, springStiffness))
        velocity == Vec(FxMul(c.offsetVelocity.x, damping) + force.x,
                        FxMul(c.offsetVelocity.y, damping) + force.y)
    IN  [w EXCEPT
            !.context.offsetVelocity = velocity,
            !.context.offset = Vec(c.offset.x + velocity.x, c.offset.y + velocity.y),
            !.context.mousePos = Vec(Lerp(c.mousePos.x, c.targetMousePos.x * FixedPoint),
                                     Lerp(c.mousePos.y, c.targetMousePos.y * FixedPoint)),
            !.context.zoom = Lerp(c.zoom, c.targetZoom),
            !.context.distortion = Lerp(c.distortion, c.targetDistortion),
            !.context.zoomProgress = Lerp(c.zoomProgress, IF c.isZoomed THEN FixedPoint ELSE 0)]

\* lines 36-44: spring physics of the offset, lerp of the smoothed values
physics(w) ==
    LET c == w.context
        force == Vec(FxMul(c.targetOffset.x - c.offset.x, springStiffness),
                     FxMul(c.targetOffset.y - c.offset.y, springStiffness))
        velocity == Vec(FxMul(c.offsetVelocity.x + force.x, damping),
                        FxMul(c.offsetVelocity.y + force.y, damping))
    IN  [w EXCEPT
            !.context.offsetVelocity = velocity,
            !.context.offset = Vec(c.offset.x + velocity.x, c.offset.y + velocity.y),
            !.context.mousePos = Vec(Lerp(c.mousePos.x, c.targetMousePos.x * FixedPoint),
                                     Lerp(c.mousePos.y, c.targetMousePos.y * FixedPoint)),
            !.context.zoom = Lerp(c.zoom, c.targetZoom),
            !.context.distortion = Lerp(c.distortion, c.targetDistortion),
            !.context.zoomProgress = Lerp(c.zoomProgress, IF c.isZoomed THEN FixedPoint ELSE 0)]

\* a hover recomputation that does not look at isZoomed
hover_WhileZoomed(w) ==
    LET worldCoord == screenToWorld(w.context.targetMousePos, w)
        currentCellId == cellIdOf(worldCoord, w.uniforms.uCellSize)
    IN  IF w.context.hoveredCellId = Null \/ currentCellId # w.context.hoveredCellId
        THEN setVideoState([w EXCEPT !.context.hoveredCellId = currentCellId], currentCellId)
        ELSE w

\* lines 49-59: the cell under the pointer, when not zoomed
hover(w) ==
    IF w.context.isZoomed THEN w
    ELSE
    LET worldCoord == screenToWorld(w.context.targetMousePos, w)
        currentCellId == cellIdOf(worldCoord, w.uniforms.uCellSize)
    IN  IF w.context.hoveredCellId = Null \/ currentCellId # w.context.hoveredCellId
        THEN setVideoState([w EXCEPT !.context.hoveredCellId = currentCellId], currentCellId)
        ELSE w

\* a drag pan that does not look at isZoomed
dragPan_WhileZoomed(w) ==
    LET c == w.context
        res == w.uniforms.uResolution
    IN  IF c.isDragging /\ res.y > 0
        THEN LET delta == Vec(c.targetMousePos.x - c.previousMouse.x,
                              c.targetMousePos.y - c.previousMouse.y)
                 aspect == Round(res.x * FixedPoint, res.y)
                 panX == FxMul(FxMul(Round(delta.x * 2 * FixedPoint, res.y), c.zoom), aspect)
                 panY == FxMul(Round(delta.y * 2 * FixedPoint, res.y), c.zoom)
             IN  [w EXCEPT !.context.targetOffset = Vec(@.x - panX, @.y + panY),
                           !.context.previousMouse = c.targetMousePos]
        ELSE w

\* lines 62-69: panning while the pointer is down
dragPan(w) ==
    LET c == w.context
        res == w.uniforms.uResolution
    IN  IF c.isDragging /\ ~c.isZoomed /\ res.y > 0
        THEN LET delta == Vec(c.targetMousePos.x - c.previousMouse.x,
                              c.targetMousePos.y - c.previousMouse.y)
                 aspect == Round(res.x * FixedPoint, res.y)
                 panX == FxMul(FxMul(Round(delta.x * 2 * FixedPoint, res.y), c.zoom), aspect)
                 panY == FxMul(Round(delta.y * 2 * FixedPoint, res.y), c.zoom)
             IN  [w EXCEPT !.context.targetOffset = Vec(@.x - panX, @.y + panY),
                           !.context.previousMouse = c.targetMousePos]
        ELSE w

\* lines 74-79: the uniforms pushed to the shader
pushUniforms(w) ==
    [w EXCEPT !.uniforms.uZoom = w.context.zoom,
              !.uniforms.uDistortionStrength = w.context.distortion,
              !.uniforms.uZoomProgress = w.context.zoomProgress,
              !.uniforms.uTime = @ + timeStep]

\* a frame that pans before it integrates
animate_PanFirst(w) == pushUniforms(hover(physics(dragPan(w))))

animate(w) == pushUniforms(dragPan(hover(physics(w))))

\* the animation loop's effect: once three.js is set up it calls animate()
\* itself, which requests the next frame callback and applies a frame step
startLoop(w) ==
    IF ~w.isThreeInitialized THEN w
    ELSE [animate(w) EXCEPT !.loop.pending = @ + 1, !.loop.steps = @ + 1]

\* the effect's cleanup: cancelAnimationFrame on the callback this loop
\* requested last
stopLoop(w) ==
    [w EXCEPT !.loop.pending = IF @ > 0 THEN @ - 1 ELSE 0]

\* n frame callbacks run one after the other; each requests its successor
RECURSIVE runCallbacks(_, _)
runCallbacks(w, n) ==
    IF n = 0 THEN w ELSE runCallbacks(animate(w), n - 1)

\* a display refresh: the browser runs every frame callback pending for it
refresh(w) ==
    [runCallbacks(w, w.loop.pending) EXCEPT !.loop.steps = w.loop.pending]

\* a render with a new project array: useVideoManager makes a new
\* setVideoState, the loop's effect is cleaned up and run again, and the
\* texture effect (no cleanup) starts a build; cleanups run before effects
rerender(w, list) == startLoop(startBuild(stopLoop(w), list))

\* the component is removed: the loop's cleanup runs
unmount(w) == [stopLoop(w) EXCEPT !.loop.unmounted = TRUE]

\* the effects of the commit that follows setup, in hook order; the animation
\* loop's effect runs the first frame itself
mountEffects(w) ==
    IF ~w.isThreeInitialized THEN w
    ELSE startLoop(startBuild(useUniforms(onResize(createVideo(w))), projects))

mount(w) == mountEffects(threeSetup(w))

----------------------------------------------------------------------------
\* Inputs of the interactive specification.

\* the project list of the interactive specification: only the second project
\* has a video
GridProjects == <<Project(1, 0), Project(2, 2), Project(3, 0)>>

\* pointer positions.  (100,50) to (106,58) is 10 px, to (130,90) is 50 px;
\* (166,118) to (172,118) is 6 px; (106,58) to (166,118) is 60 px along both
\* axes; from (100,50), (166,118) is farther along y and (172,118) along x
Points ==
    {Vec(100, 50), Vec(106, 58), Vec(130, 90), Vec(166, 118), Vec(172, 118)}

\* where pointermove events report the pointer
MovePoints == {Vec(166, 118)}

\* one wheel event: 20 lines left, 30 lines down
WheelEvents == {[deltaX |-> -20, deltaY |-> 30, deltaMode |-> 1]}

\* a step of the interactive specification: the bound on videoNonce and on the
\* distance panned while not zoomed cut the run short
Step(w) ==
    /\ w.context.videoNonce <= MaxNonce
    /\ (w.context.targetOffset # Null /\ ~w.context.isZoomed) =>
          /\ Abs(w.context.targetOffset.x) <= MaxPan * FixedPoint
          /\ Abs(w.context.targetOffset.y) <= MaxPan * FixedPoint
    /\ Commit(w)

Mount ==
    /\ ~isThreeInitialized
    /\ Step(mount(World))

Frame ==
    /\ isThreeInitialized
    /\ uniforms.uTime < (MaxFrames + 1) * timeStep
    /\ Step(animate(World))

PointerDown == \E p \in Points : Step(onPointerDown(World, p))

PointerMove == \E p \in MovePoints : Step(onPointerMove(World, p))

PointerUp == \E p \in Points : Step(onPointerUp(World, p))

PointerLeave == \E p \in Points : Step(onPointerLeave(World, p))

Wheel == \E e \in WheelEvents : Step(onWheel(World, e))

LoadResolve == \E c \in pending : c.pc = "load" /\ Commit(afterLoad(World, c))

LoadReject == \E c \in pending : c.pc = "load" /\ Commit(caught(World, c))

PlayResolve == \E c \in pending : c.pc = "play" /\ Commit(afterPlay(World, c))

PlayReject == \E c \in pending : c.pc = "play" /\ Commit(caught(World, c))

Init ==
    /\ threeLoaded \in BOOLEAN
    /\ projects = GridProjects
    /\ props = DefaultProps
    /\ isMobile = FALSE
    /\ probe = Null
    /\ isThreeInitialized = FALSE
    /\ context = InitialContext
    /\ uniforms = Null
    /\ video = Null
    /\ pending = {}
    /\ zoomedProject = Null
    /\ cursor = "grab"
    /\ lookupId = Null
    /\ lookupResult = Null
    /\ link = InitialLink
    /\ textureBuilds = InitialTextures
    /\ loop = InitialLoop

Next ==
    \/ Mount
    \/ Frame
    \/ PointerDown
    \/ PointerMove
    \/ PointerUp
    \/ PointerLeave
    \/ Wheel
    \/ LoadResolve
    \/ LoadReject
    \/ PlayResolve
    \/ PlayReject

Spec == Init /\ [][Next]_vars

----------------------------------------------------------------------------
\* Lookup harness: getProjectByCellId applied to every cell id of a square
\* around the origin (and to null) and to project lists of every length up to
\* MaxProjects.

NotRun == [pending |-> TRUE]

LookupIds ==
    {Null} \cup {Vec(a, b) : a \in -MaxCoord..MaxCoord, b \in -MaxCoord..MaxCoord}

InitLookup ==
    /\ threeLoaded = FALSE
    /\ projects \in {ProjectList(n) : n \in 0..MaxProjects}
    /\ props = DefaultProps
    /\ isMobile = FALSE
    /\ probe = Null
    /\ isThreeInitialized = FALSE
    /\ context = InitialContext
    /\ uniforms = Null
    /\ video = Null
    /\ pending = {}
    /\ zoomedProject = Null
    /\ cursor = "grab"
    /\ lookupId \in LookupIds
    /\ lookupResult = NotRun
    /\ link = InitialLink
    /\ textureBuilds = InitialTextures
    /\ loop = InitialLoop

Lookup ==
    /\ lookupResult = NotRun
    /\ lookupResult' = getProjectByCellId(lookupId, projects)
    /\ UNCHANGED <<threeLoaded, projects, props, isMobile, probe,
                   isThreeInitialized, context, uniforms, video, pending,
                   zoomedProject, cursor, lookupId, link, textureBuilds, loop>>

NextLookup == Lookup

SpecLookup == InitLookup /\ [][NextLookup]_vars

----------------------------------------------------------------------------
\* textureUtils.ts and useTextureManager.ts: the atlases

\* ceil(sqrt(n))
CeilSqrt(n) == CHOOSE g \in 0..n : g * g >= n /\ (g = 0 \/ (g - 1) * (g - 1) < n)

\* textureUtils.ts createTextureAtlas: texture number index (from 0) is drawn
\* into the canvas at column index % atlasGridSize and row
\* floor(index / atlasGridSize), rows counted from the top of the canvas; the
\* canvas becomes a THREE.CanvasTexture, whose flipY the code leaves at the
\* library's default of true
createTextureAtlas(textures) ==
    LET atlasGridSize == CeilSqrt(Len(textures))
    IN  [atlasGridSize |-> atlasGridSize,
         flipY |-> TRUE,
         canvas |-> [i \in 1..Len(textures) |->
                        [slot |-> Vec((i - 1) % atlasGridSize,
                                      MathFloor(i - 1, atlasGridSize)),
                         image |-> textures[i]]]]

\* textureUtils.ts createPlaceholderTexture: stands in for an image that
\* failed to load
Placeholder == [placeholder |-> TRUE]

\* lines 33-40: the image textures of a list once every load has settled;
\* failed holds the positions whose load was rejected
loadTextures(list, failed) ==
    [i \in 1..Len(list) |-> IF i \in failed THEN Placeholder ELSE list[i]]

\* the THREE.CanvasTexture object of an atlas: id tells one object from another
CanvasTexture(id, atlas) ==
    [field \in DOMAIN atlas \cup {"id"} |-> IF field = "id" THEN id ELSE atlas[field]]

\* the objects the uniforms hold, in the order lines 49-50 dispose of them
installedAtlases(w) ==
    (IF w.uniforms.uImageAtlas # Null THEN <<w.uniforms.uImageAtlas.id>> ELSE <<>>)
    \o (IF w.uniforms.uTextAtlas # Null THEN <<w.uniforms.uTextAtlas.id>> ELSE <<>>)

\* updateData that installs the new atlases without disposing of the old ones
updateData_NoDispose(w, b, failed) ==
    IF b \notin w.textureBuilds.running THEN w
    ELSE [w EXCEPT
            !.uniforms.uImageAtlas =
                CanvasTexture([build |-> b.build, isText |-> FALSE],
                              createTextureAtlas(loadTextures(b.list, failed))),
            !.uniforms.uTextAtlas =
                CanvasTexture([build |-> b.build, isText |-> TRUE],
                              createTextureAtlas(b.list)),
            !.uniforms.uTextureCount = Len(b.list),
            !.textureBuilds.running = @ \ {b}]

\* updateData that leaves the images that failed out of the atlas
updateData_DropFailed(w, b, failed) ==
    IF b \notin w.textureBuilds.running THEN w
    ELSE [w EXCEPT
            !.uniforms.uImageAtlas =
                CanvasTexture([build |-> b.build, isText |-> FALSE],
                              createTextureAtlas(SelectSeq(loadTextures(b.list, failed),
                                                           LAMBDA t : t # Placeholder))),
            !.uniforms.uTextAtlas =
                CanvasTexture([build |-> b.build, isText |-> TRUE],
                              createTextureAtlas(b.list)),
            !.uniforms.uTextureCount = Len(b.list) - Cardinality(failed),
            !.textureBuilds.running = @ \ {b},
            !.textureBuilds.disposed = @ \o installedAtlases(w)]

\* useTextureManager.ts updateData, lines 40-55, resumed once every image of
\* build b has loaded or failed: both atlases are drawn, the installed ones
\* disposed of, and the three uniforms assigned, with no await in between
updateData(w, b, failed) ==
    IF b \notin w.textureBuilds.running THEN w
    ELSE [w EXCEPT
            !.uniforms.uImageAtlas =
                CanvasTexture([build |-> b.build, isText |-> FALSE],
                              createTextureAtlas(loadTextures(b.list, failed))),
            !.uniforms.uTextAtlas =
                CanvasTexture([build |-> b.build, isText |-> TRUE],
                              createTextureAtlas(b.list)),
            !.uniforms.uTextureCount = Len(b.list),
            !.textureBuilds.running = @ \ {b},
            !.textureBuilds.disposed = @ \o installedAtlases(w)]

----------------------------------------------------------------------------
\* Video harness: the mounted grid, with setVideoState called for any cell of
\* VideoCells (or null) at any time, and load() and play() settling in any order.

\* the first two projects have a video of their own, the third has none
VideoProjects == <<Project(1, 1), Project(2, 2), Project(3, 0)>>

\* cells of projects 1, 2, 3 and again 1
VideoCells == {Vec(0, 0), Vec(1, 0), Vec(2, 0), Vec(3, 0)}

InitialWorld ==
    [context |-> InitialContext, uniforms |-> Null, video |-> Null,
     pending |-> {}, zoomedProject |-> Null, cursor |-> "grab",
     isThreeInitialized |-> FALSE, link |-> InitialLink,
     textureBuilds |-> InitialTextures, loop |-> InitialLoop]

InitVideo ==
    /\ threeLoaded = TRUE
    /\ projects \in {VideoProjects, <<>>}
    /\ props = DefaultProps
    /\ isMobile = FALSE
    /\ probe = Null
    /\ isThreeInitialized = mount(InitialWorld).isThreeInitialized
    /\ context = mount(InitialWorld).context
    /\ uniforms = mount(InitialWorld).uniforms
    /\ video = mount(InitialWorld).video
    /\ pending = mount(InitialWorld).pending
    /\ zoomedProject = mount(InitialWorld).zoomedProject
    /\ cursor = mount(InitialWorld).cursor
    /\ lookupId = Null
    /\ lookupResult = Null
    /\ link = InitialLink
    /\ textureBuilds = mount(InitialWorld).textureBuilds
    /\ loop = mount(InitialWorld).loop

Request ==
    \E id \in VideoCells \cup {Null} :
        /\ context.videoNonce < MaxCalls
        /\ Commit(setVideoState(World, id))

\* the image loads that may be rejected: none, the first, or all of them
FailedLoads(list) == {{}, {1}, DOMAIN list}

\* the last image load of a build settles, and updateData resumes
BuildComplete ==
    \E b \in textureBuilds.running :
        \E failed \in FailedLoads(b.list) : Commit(updateData(World, b, failed))

NextVideo ==
    \/ Request
    \/ LoadResolve
    \/ LoadReject
    \/ PlayResolve
    \/ PlayReject
    \/ BuildComplete

SpecVideo == InitVideo /\ [][NextVideo]_vars

----------------------------------------------------------------------------
\* The fragment shader (unnamed/part_000), in the same fixed point

\* GLSL built-ins
RECURSIVE SqrtSearch(_, _, _)
SqrtSearch(n, lo, hi) ==
    IF lo >= hi THEN lo
    ELSE LET mid == (lo + hi + 1) \div 2
         IN  IF mid * mid <= n THEN SqrtSearch(n, mid, hi)
             ELSE SqrtSearch(n, lo, mid - 1)

\* length(v), rounded down
length(v) == SqrtSearch(v.x * v.x + v.y * v.y, 0, Abs(v.x) + Abs(v.y))

clamp(x, lo, hi) == IF x < lo THEN lo ELSE IF x > hi THEN hi ELSE x

smoothstep(edge0, edge1, x) ==
    LET ratio == IF edge1 > edge0
                 THEN Round((x - edge0) * FixedPoint, edge1 - edge0)
                 ELSE Round((edge0 - x) * FixedPoint, edge0 - edge1)
        t == clamp(ratio, 0, FixedPoint)
    IN  FxMul(FxMul(t, t), 3 * FixedPoint - 2 * t)

\* sin(a) by Bhaskara's rational approximation on each half period
sin(a) ==
    LET pi == 3142
        x == a % (2 * pi)
        half(y) == LET p == (y * (pi - y)) \div FixedPoint
                   IN  Round(16 * p * FixedPoint, 49348 - 4 * p)
    IN  IF x <= pi THEN half(x) ELSE -half(x - pi)

\* mod(a, n) is a - n * floor(a / n), undefined at n = 0
mod(a, n) == IF n = 0 THEN Undefined ELSE a % n

\* an empty part of the atlas canvas
Blank == [blank |-> TRUE]

\* texture(atlas, atlasUV) for an atlasUV inside the slot of that column and
\* row of the shader's grid: v runs from the bottom of a flipped texture, so
\* row r of the shader is row atlasGridSize - 1 - r of the canvas
texture(atlas, slot) ==
    IF atlas = Null \/ slot = Undefined THEN Undefined
    ELSE LET canvasSlot == IF atlas.flipY
                           THEN Vec(slot.x, atlas.atlasGridSize - 1 - slot.y)
                           ELSE slot
             drawn == {i \in DOMAIN atlas.canvas : atlas.canvas[i].slot = canvasSlot}
         IN  IF drawn = {} THEN Blank
             ELSE atlas.canvas[CHOOSE i \in drawn : TRUE].image

\* lines 103-105 and 129-131: the atlas slot of a cell
atlasSlot(cellId, uTextureCount) ==
    LET texIndex == mod(cellId.x + cellId.y * 3, uTextureCount)
        atlasSize == CeilSqrt(uTextureCount)
    IN  [texIndex |-> texIndex,
         slot |-> IF atlasSize = 0 THEN Undefined
                  ELSE Vec(mod(texIndex, atlasSize), MathFloor(texIndex, atlasSize))]

\* drawImage: what the image layer mixes into the pixel, Null when it leaves
\* the colour alone
drawImage(cellUV, cellId, hoverIntensity, effectIntensity, w) ==
    LET hoverScale == FixedPoint + FxMul(hoverIntensity, 50)
        size == FxMul(600, hoverScale)
        margin == (FixedPoint - size) \div 2
        imageUV == Vec(Round((cellUV.x - margin) * FixedPoint, size),
                       Round((cellUV.y - margin) * FixedPoint, size))
        imageAlpha ==
            FxMul(FxMul(smoothstep(0, 10, imageUV.x), smoothstep(FixedPoint, 990, imageUV.x)),
                  FxMul(smoothstep(0, 10, imageUV.y), smoothstep(FixedPoint, 990, imageUV.y)))
        isHoveredCell == w.uniforms.uIsVideoActive /\ cellId = w.uniforms.uHoveredCellId
        at == atlasSlot(cellId, w.uniforms.uTextureCount)
    IN  IF imageAlpha > 0
        THEN IF isHoveredCell
             THEN [sampler |-> "uActiveVideo", texIndex |-> Null, slot |-> Null,
                   colour |-> w.video]
             ELSE [sampler |-> "uImageAtlas", texIndex |-> at.texIndex, slot |-> at.slot,
                   colour |-> texture(w.uniforms.uImageAtlas, at.slot)]
        ELSE Null

\* drawText: what the text layer mixes into the pixel, Null outside the band
drawText(cellUV, cellId, hoverIntensity, w) ==
    LET at == atlasSlot(cellId, w.uniforms.uTextureCount)
    IN  IF cellUV.x > 50 /\ cellUV.x < 950 /\ cellUV.y > 50 /\ cellUV.y < 50 + 80
        THEN [sampler |-> "uTextAtlas", texIndex |-> at.texIndex, slot |-> at.slot,
              colour |-> texture(w.uniforms.uTextAtlas, at.slot)]
        ELSE Null

\* the ripple with the desktop-only guard removed
ripple_AlwaysOn(worldCoord, mouseWorldCoord, w) ==
    LET distToMouseRipple == length(Vec(mouseWorldCoord.x - worldCoord.x,
                                        mouseWorldCoord.y - worldCoord.y))
        rippleFalloff == smoothstep(FxMul(w.uniforms.uCellSize, 1500), 0, distToMouseRipple)
    IN  FxMul(FxMul(sin(distToMouseRipple * 12 - w.uniforms.uTime * 3), rippleFalloff), 2)

\* lines 159-164: the ripple added to both axes of worldCoord
ripple(worldCoord, mouseWorldCoord, w) ==
    IF ~w.uniforms.uOptimizeMobile
    THEN LET distToMouseRipple == length(Vec(mouseWorldCoord.x - worldCoord.x,
                                             mouseWorldCoord.y - worldCoord.y))
             rippleFalloff == smoothstep(FxMul(w.uniforms.uCellSize, 1500), 0, distToMouseRipple)
         IN  FxMul(FxMul(sin(distToMouseRipple * 12 - w.uniforms.uTime * 3), rippleFalloff), 2)
    ELSE 0

\* getSceneColor: the cell of the fragment at uv and the layers drawn over
\* background and grid.  uOffset and uMousePos are the context's own vectors
\* (useThreeSetup.ts lines 60-62)
getSceneColor(uv, effectIntensity, w) ==
    LET u == w.uniforms
        uOffset == w.context.offset
        uMousePos == w.context.mousePos
        screenUV == Vec((uv.x - FixedPoint \div 2) * 2, (uv.y - FixedPoint \div 2) * 2)
        radiusSq == FxMul(screenUV.x, screenUV.x) + FxMul(screenUV.y, screenUV.y)
        distortion == FixedPoint - FxMul(FxMul(u.uDistortionStrength, 80), radiusSq)
        distortedUV == Vec(FxMul(screenUV.x, distortion), FxMul(screenUV.y, distortion))
        aspectRatio == Vec(Round(u.uResolution.x * FixedPoint, u.uResolution.y), FixedPoint)
        plainCoord == Vec(FxMul(FxMul(distortedUV.x, aspectRatio.x), u.uZoom) + uOffset.x,
                          FxMul(FxMul(distortedUV.y, aspectRatio.y), u.uZoom) + uOffset.y)
        mouseScreenUV == Vec(Round(uMousePos.x * 2, u.uResolution.x) - FixedPoint,
                             FixedPoint - Round(uMousePos.y * 2, u.uResolution.y))
        mouseWorldCoord ==
            Vec(FxMul(FxMul(mouseScreenUV.x, aspectRatio.x), u.uZoom) + uOffset.x,
                FxMul(FxMul(mouseScreenUV.y, aspectRatio.y), u.uZoom) + uOffset.y)
        shift == ripple(plainCoord, mouseWorldCoord, w)
        worldCoord == Vec(plainCoord.x + shift, plainCoord.y + shift)
        cellId == Vec(MathFloor(worldCoord.x, u.uCellSize), MathFloor(worldCoord.y, u.uCellSize))
        cellUV == Vec(Round((worldCoord.x - cellId.x * u.uCellSize) * FixedPoint, u.uCellSize),
                      Round((worldCoord.y - cellId.y * u.uCellSize) * FixedPoint, u.uCellSize))
        centre == Vec(FxMul(cellId.x * FixedPoint + FixedPoint \div 2, u.uCellSize),
                      FxMul(cellId.y * FixedPoint + FixedPoint \div 2, u.uCellSize))
        distToMouseHover == length(Vec(mouseWorldCoord.x - centre.x, mouseWorldCoord.y - centre.y))
        falloff == smoothstep(FxMul(u.uCellSize, 1500), 0, distToMouseHover)
        hoverIntensity == FxMul(falloff, falloff)
    IN  [ripple |-> shift, cellId |-> cellId, cellUV |-> cellUV,
         image |-> drawImage(cellUV, cellId, hoverIntensity, effectIntensity, w),
         text |-> drawText(cellUV, cellId, hoverIntensity, w)]

\* the vertex shader's vUv at a position of the canvas in pixels: the plane
\* fills the canvas and v grows upwards
vUv(screenPos, w) ==
    Vec(Round(screenPos.x * FixedPoint, w.uniforms.uResolution.x),
        FixedPoint - Round(screenPos.y * FixedPoint, w.uniforms.uResolution.y))

----------------------------------------------------------------------------
\* Shader harness: the mounted grid on a desktop or a touch device, with any
\* of a few project lists and camera states, the atlases loading at some
\* point, and the CPU's and the shader's reading of a pixel recorded by probe

TextureCounts == {0, 1, 2, 3, 5, MaxProjects}

ShaderCameras ==
    [offset : {Vec(0, 0), Vec(-1, -1), Vec(1500, -750)},
     zoom : {defaultZoomLevel, zoomedInLevel},
     distortion : {0, distortionStrength},
     mousePos : {Vec(0, 0), Vec(106000, 58000)}]

\* positions of the canvas
Pixels ==
    {Vec(100, 50), Vec(120, 30), Vec(120, 47), Vec(75, 70), Vec(75, 97),
     Vec(20, 10), Vec(106, 58), Vec(190, 95)}

\* the mounted grid with the camera where the springs have brought it
cameraAt(w, camera) ==
    pushUniforms([w EXCEPT !.context.offset = camera.offset,
                           !.context.zoom = camera.zoom,
                           !.context.distortion = camera.distortion,
                           !.context.mousePos = camera.mousePos])

InitShader ==
    /\ threeLoaded = TRUE
    /\ projects \in {ProjectList(n) : n \in TextureCounts}
    /\ props = DefaultProps
    /\ isMobile \in BOOLEAN
    /\ probe = Null
    /\ \E camera \in ShaderCameras :
        LET w == cameraAt(mount(InitialWorld), camera)
        IN  /\ isThreeInitialized = w.isThreeInitialized
            /\ context = w.context
            /\ uniforms = w.uniforms
            /\ video = w.video
            /\ pending = w.pending
            /\ zoomedProject = w.zoomedProject
            /\ cursor = w.cursor
            /\ textureBuilds = w.textureBuilds
            /\ loop = w.loop
    /\ lookupId = Null
    /\ lookupResult = Null
    /\ link = InitialLink

\* the texture manager's effect finishes loading
TexturesLoaded == \E b \in textureBuilds.running : Commit(updateData(World, b, {}))

\* what the CPU (hover and tap hit-testing) and the shader make of a position
renderProbe(screenPos, w) ==
    LET worldCoord == screenToWorld(screenPos, w)
        cellId == cellIdOf(worldCoord, w.uniforms.uCellSize)
    IN  [pixel |-> screenPos, uniforms |-> w.uniforms,
         cpu |-> [worldCoord |-> worldCoord, cellId |-> cellId,
                  project |-> getProjectByCellId(cellId, projects)],
         gpu |-> getSceneColor(vUv(screenPos, w), 0, w)]

\* renderer.render draws the frame; one fragment is looked at
Render ==
    /\ context.renderer
    /\ \E screenPos \in Pixels : probe' = renderProbe(screenPos, World)
    /\ UNCHANGED <<threeLoaded, projects, props, isMobile, isThreeInitialized,
                   context, uniforms, video, pending, zoomedProject, cursor,
                   lookupId, lookupResult, link, textureBuilds, loop>>

NextShader == TexturesLoaded \/ Render

SpecShader == InitShader /\ [][NextShader]_vars

----------------------------------------------------------------------------
\* Focus harness: the mounted grid with taps, swipes, frames and the passing
\* of time on the focus effect's timer

\* ms between two looks at the timer
TimerTick == 100

\* the timer's callback (line 28): linkRef.current?.focus()
focusLink(w) == [w EXCEPT !.link.focused = TRUE]

\* TimerTick ms pass; every timer that has run for focusDelay fires and is
\* pending no more
elapse(w) ==
    LET due(t) == t.elapsed + TimerTick >= focusDelay
        waiting == SelectSeq(w.link.timers, LAMBDA t : ~due(t))
        later == [w EXCEPT !.link.timers =
                     [i \in 1..Len(waiting) |-> [elapsed |-> waiting[i].elapsed + TimerTick]]]
    IN  IF \E i \in DOMAIN w.link.timers : due(w.link.timers[i])
        THEN focusLink(later)
        ELSE later

InitFocus ==
    /\ threeLoaded = TRUE
    /\ projects = GridProjects
    /\ props = DefaultProps
    /\ isMobile = FALSE
    /\ probe = Null
    /\ isThreeInitialized = mount(InitialWorld).isThreeInitialized
    /\ context = mount(InitialWorld).context
    /\ uniforms = mount(InitialWorld).uniforms
    /\ video = mount(InitialWorld).video
    /\ pending = mount(InitialWorld).pending
    /\ zoomedProject = mount(InitialWorld).zoomedProject
    /\ cursor = mount(InitialWorld).cursor
    /\ lookupId = Null
    /\ lookupResult = Null
    /\ link = mount(InitialWorld).link
    /\ textureBuilds = mount(InitialWorld).textureBuilds
    /\ loop = mount(InitialWorld).loop

Tick ==
    /\ link.timers # <<>>
    /\ link' = elapse(World).link
    /\ UNCHANGED <<threeLoaded, projects, props, isMobile, probe,
                   isThreeInitialized, context, uniforms, video, pending,
                   zoomedProject, cursor, lookupId, lookupResult, textureBuilds, loop>>

NextFocus ==
    \/ Frame
    \/ PointerDown
    \/ PointerUp
    \/ Tick

\* the browser runs a due timer
SpecFocus == InitFocus /\ [][NextFocus]_vars /\ WF_vars(Tick)

----------------------------------------------------------------------------
\* Props harness: the grid mounted with any configured distortionStrength of
\* DistortionStrengths, then pressed, released and animated.

\* configured values of props.distortionStrength, from the range 0 to 2
DistortionStrengths == {0, 500, 1000, 2000}

InitProps ==
    /\ threeLoaded = TRUE
    /\ projects = GridProjects
    /\ props \in {[DefaultProps EXCEPT !.distortionStrength = d] : d \in DistortionStrengths}
    /\ isMobile = FALSE
    /\ probe = Null
    /\ isThreeInitialized = FALSE
    /\ context = InitialContext
    /\ uniforms = Null
    /\ video = Null
    /\ pending = {}
    /\ zoomedProject = Null
    /\ cursor = "grab"
    /\ lookupId = Null
    /\ lookupResult = Null
    /\ link = InitialLink
    /\ textureBuilds = InitialTextures
    /\ loop = InitialLoop

NextProps ==
    \/ Mount
    \/ Frame
    \/ PointerDown
    \/ PointerUp

SpecProps == InitProps /\ [][NextProps]_vars

----------------------------------------------------------------------------
\* Integrator harness: the mounted grid at rest at the origin, with a target
\* offset of Targets set before the next frame (as a wheel event does), and
\* nothing but frames after that.

Targets ==
    {Vec(375, 375), Vec(-720, -540), Vec(1125, -1125), Vec(2000, 0),
     Vec(-1500, 750), Vec(240, 0)}

InitIntegrator ==
    /\ threeLoaded = TRUE
    /\ projects = GridProjects
    /\ props = DefaultProps
    /\ isMobile = FALSE
    /\ probe = Null
    /\ isThreeInitialized = mount(InitialWorld).isThreeInitialized
    /\ \E t \in Targets :
          context = [mount(InitialWorld).context EXCEPT !.targetOffset = t]
    /\ uniforms = mount(InitialWorld).uniforms
    /\ video = mount(InitialWorld).video
    /\ pending = mount(InitialWorld).pending
    /\ zoomedProject = mount(InitialWorld).zoomedProject
    /\ cursor = mount(InitialWorld).cursor
    /\ lookupId = Null
    /\ lookupResult = Null
    /\ link = InitialLink
    /\ textureBuilds = mount(InitialWorld).textureBuilds
    /\ loop = mount(InitialWorld).loop

\* one more frame, up to MaxSteps frames after the mount's own
Integrate ==
    /\ uniforms.uTime < (MaxSteps + 1) * timeStep
    /\ Commit(animate(World))

NextIntegrator == Integrate

SpecIntegrator == InitIntegrator /\ [][NextIntegrator]_vars

----------------------------------------------------------------------------
\* Claims about getProjectByCellId (SpecLookup)

\* C1: for every integer cell id (x, y), negative components included, and
\* every list of N >= 1 projects, getProjectByCellId returns the project at
\* index (x + 3*y) modulo N taken in 0..N-1.
C1_WrapInvariant ==
    (lookupResult # NotRun /\ lookupId # Null /\ Len(projects) >= 1) =>
        lookupResult = projects[((lookupId.x + 3 * lookupId.y) % Len(projects)) + 1]

\* cell (-1, 0) of nine projects is the last project
C1_Witness ==
    /\ lookupId = Vec(-1, 0)
    /\ Len(projects) = 9
    /\ lookupResult = projects[9]

\* C2: getProjectByCellId returns null for an empty project list, whatever the
\* cell id, and for a null cell id, whatever the list.
C2_FailsClosed ==
    (lookupResult # NotRun /\ (lookupId = Null \/ Len(projects) = 0)) =>
        lookupResult = Null

\* a lookup of a negative cell in the empty list has returned null
C2_Witness ==
    /\ lookupId = Vec(-1, 2)
    /\ Len(projects) = 0
    /\ lookupResult = Null

----------------------------------------------------------------------------
\* Claims about setVideoState (SpecVideo)

\* a call that is suspended and is no longer the latest
Superseded(c) == c \in pending /\ c.nonce # context.videoNonce

\* the step resumes call c: it leaves its await
Resumes(c) == c \in pending /\ c \notin pending'

\* C3: uIsVideoActive becomes true only in a step that resumes, from its play
\* await, the call whose nonce is videoNonce; a step that resumes a superseded
\* call never makes it true.
C3_OnlyLatestActivates ==
    [][/\ (~uniforms.uIsVideoActive /\ uniforms'.uIsVideoActive) =>
              \E c \in pending :
                  Resumes(c) /\ c.pc = "play" /\ c.nonce = context.videoNonce
       /\ \A c \in pending :
              (Superseded(c) /\ Resumes(c)) =>
                  (uniforms'.uIsVideoActive = uniforms.uIsVideoActive)]_vars

\* the video is active while a superseded call still waits for its play()
C3_Witness ==
    /\ uniforms.uIsVideoActive
    /\ \E c \in pending : c.pc = "play" /\ c.nonce < context.videoNonce

\* C4: a superseded call that resumes from its load await or its play await
\* writes nothing: uHoveredCellId, the paused state of the video element (no
\* play() call) and uIsVideoActive stay as they were.
C4_SupersededAbandons ==
    [][\A c \in pending :
          (Superseded(c) /\ Resumes(c)) =>
              /\ uniforms'.uHoveredCellId = uniforms.uHoveredCellId
              /\ video'.paused = video.paused
              /\ uniforms'.uIsVideoActive = uniforms.uIsVideoActive]_vars

----------------------------------------------------------------------------
\* Claims about gestures and zoom (Spec)

\* the step is a pointer release at p, handled by onPointerUp
Released(p) == context.renderer /\ Step(onPointerUp(World, p))

\* squared length, in pixels, of the gesture that ends with a release at p
GestureSq(p) ==
    (p.x - context.clickStart.x) * (p.x - context.clickStart.x)
        + (p.y - context.clickStart.y) * (p.y - context.clickStart.y)

\* the cell on screen at pixel p
CellAt(p) == cellIdOf(screenToWorld(p, World), uniforms.uCellSize)

\* no frame has run while zoomed, so every cell is on screen where it was when
\* the zoom-in happened
NoFrameSinceZoom == context.isZoomed /\ context.zoomProgress = 0

\* C5: a zoom-in snapshots targetOffset and targetZoom into lastOffset and
\* lastZoom, no step taken while zoomed (frame, pointer move, drag, wheel,
\* navigation between cells) changes the snapshot, and unzoom restores
\* targetOffset and targetZoom from it: after unzoom they are exactly the
\* values held immediately before the zoom-in.
C5_ZoomRoundTrip ==
    [][context.renderer =>
        /\ (~context.isZoomed /\ context'.isZoomed) =>
              /\ context'.lastOffset = context.targetOffset
              /\ context'.lastZoom = context.targetZoom
        /\ (context.isZoomed /\ context'.isZoomed) =>
              /\ context'.lastOffset = context.lastOffset
              /\ context'.lastZoom = context.lastZoom
        /\ (context.isZoomed /\ ~context'.isZoomed) =>
              /\ context'.targetOffset = context.lastOffset
              /\ context'.targetZoom = context.lastZoom]_vars

\* unzoomed again after a frame ran while zoomed, back on a panned offset
C5_Witness ==
    /\ context.renderer
    /\ ~context.isZoomed
    /\ context.zoomProgress > 0
    /\ context.lastOffset # Vec(0, 0)
    /\ context.targetOffset = context.lastOffset
    /\ context.targetZoom = context.lastZoom

\* C6: a release is a Tap iff the gesture is shorter than 10 px and a Swipe iff
\* it is longer than 50 px, never both; exactly 10 px is no Tap and exactly
\* 50 px no Swipe.  Not zoomed, a release zooms in iff it is a Tap; zoomed, it
\* acts (navigates or unzooms) iff it is a Tap or a Swipe, a Tap ending
\* unzoomed or on the tapped cell and a Swipe on another cell.
C6_GestureClassification ==
    [][\A p \in Points :
          Released(p) =>
              LET tap == GestureSq(p) < 100
                  swipe == GestureSq(p) > 2500
                  acted == context'.videoNonce # context.videoNonce
              IN  /\ ~(tap /\ swipe)
                  /\ ~context.isZoomed => (context'.isZoomed <=> tap)
                  /\ ~context.isZoomed => (acted <=> tap)
                  /\ context.isZoomed => (acted <=> (tap \/ swipe))
                  /\ (context.isZoomed /\ tap) =>
                        context'.zoomedCellId \in {Null, CellAt(p)}
                  /\ (context.isZoomed /\ swipe) =>
                        /\ context'.isZoomed
                        /\ context'.zoomedCellId # context.zoomedCellId]_vars

\* zoomed in by the first gesture, a tap released where it was pressed
C6_Witness ==
    /\ context.renderer
    /\ NoFrameSinceZoom
    /\ ~context.isDragging
    /\ context.videoNonce = 2
    /\ context.zoomedCellId = CellAt(context.clickStart)

\* C7: while zoomed, a Tap on the zoomed cell unzooms, and a Tap on any other
\* cell navigates to it: still zoomed, zoomedCellId the tapped cell, and
\* lastOffset, lastZoom and targetZoom unchanged.
C7_ZoomedTap ==
    [][\A p \in Points :
          (Released(p) /\ context.isZoomed /\ GestureSq(p) < 100) =>
              IF CellAt(p) = context.zoomedCellId
              THEN /\ ~context'.isZoomed
                   /\ context'.zoomedCellId = Null
              ELSE /\ context'.isZoomed
                   /\ context'.zoomedCellId = CellAt(p)
                   /\ context'.lastOffset = context.lastOffset
                   /\ context'.lastZoom = context.lastZoom
                   /\ context'.targetZoom = context.targetZoom]_vars

\* zoomed on a cell under a pointer position, the request before the latest
\* one having been for another cell that was zoomed, not hovered
C7_Witness ==
    /\ context.renderer
    /\ NoFrameSinceZoom
    /\ ~context.isDragging
    /\ \E p \in Points : context.zoomedCellId = CellAt(p)
    /\ \E c \in pending :
          /\ c.nonce = context.videoNonce - 1
          /\ c.cellId # context.zoomedCellId
          /\ c.cellId # context.hoveredCellId

\* C8: while zoomed, a Swipe navigates to the cell one unit from zoomedCellId
\* along one axis: x decreases by sign(deltaX) if |deltaX| > |deltaY|, else y
\* increases by sign(deltaY); the new cell differs from the old one on exactly
\* one axis.
C8_SwipeNeighbour ==
    [][\A p \in Points :
          (Released(p) /\ context.isZoomed /\ GestureSq(p) > 2500) =>
              LET dx == p.x - context.clickStart.x
                  dy == p.y - context.clickStart.y
                  old == context.zoomedCellId
                  new == context'.zoomedCellId
              IN  /\ context'.isZoomed
                  /\ Abs(dx) > Abs(dy) => new = Vec(old.x - Sign(dx), old.y)
                  /\ Abs(dx) <= Abs(dy) => new = Vec(old.x, old.y + Sign(dy))
                  /\ new # old
                  /\ Abs(new.x - old.x) + Abs(new.y - old.y) = 1]_vars

\* zoomed on a cell that is under no pointer position: a swipe led there
C8_Witness ==
    /\ context.renderer
    /\ NoFrameSinceZoom
    /\ ~context.isDragging
    /\ \A p \in Points : context.zoomedCellId # CellAt(p)

\* C9: not zoomed, a Tap on cell c zooms in: lastOffset and lastZoom take the
\* targetOffset and targetZoom held before, targetZoom is 0.3, targetDistortion
\* 0, isZoomed true, zoomedCellId c, targetOffset (c + 0.5) * cellSize on both
\* axes, the focused project getProjectByCellId(c), and setVideoState(c) has
\* been called.
C9_ZoomIn ==
    [][\A p \in Points :
          (Released(p) /\ ~context.isZoomed /\ GestureSq(p) < 100) =>
              LET c == CellAt(p)
                  requested == setVideoState(World, c)
              IN  /\ context'.lastOffset = context.targetOffset
                  /\ context'.lastZoom = context.targetZoom
                  /\ context'.targetZoom = 300
                  /\ context'.targetDistortion = 0
                  /\ context'.isZoomed
                  /\ context'.zoomedCellId = c
                  /\ 2 * context'.targetOffset.x = (2 * c.x + 1) * uniforms.uCellSize
                  /\ 2 * context'.targetOffset.y = (2 * c.y + 1) * uniforms.uCellSize
                  /\ zoomedProject' = getProjectByCellId(c, projects)
                  /\ context'.videoNonce = context.videoNonce + 1
                  /\ ~uniforms'.uIsVideoActive
                  /\ pending' = requested.pending
                  /\ video' = requested.video]_vars

\* zoomed in from a panned offset on a cell that has a video, its request
\* waiting
C9_Witness ==
    /\ context.renderer
    /\ NoFrameSinceZoom
    /\ context.lastOffset # Vec(0, 0)
    /\ context.targetZoom = 300
    /\ zoomedProject = GridProjects[2]
    /\ \E c \in pending : c.nonce = context.videoNonce /\ c.cellId = context.zoomedCellId

\* C10: a release that is no actionable gesture navigates nowhere: not zoomed
\* with a gesture of 10 px or more, or zoomed with one of 10 to 50 px, it
\* leaves isZoomed, zoomedCellId, targetZoom, targetDistortion, lastOffset,
\* lastZoom, the focused project and videoNonce unchanged.
C10_PlainRelease ==
    [][\A p \in Points :
          (/\ Released(p)
           /\ \/ ~context.isZoomed /\ GestureSq(p) >= 100
              \/ context.isZoomed /\ GestureSq(p) >= 100 /\ GestureSq(p) <= 2500) =>
              /\ context'.isZoomed = context.isZoomed
              /\ context'.zoomedCellId = context.zoomedCellId
              /\ context'.targetZoom = context.targetZoom
              /\ context'.targetDistortion = context.targetDistortion
              /\ context'.lastOffset = context.lastOffset
              /\ context'.lastZoom = context.lastZoom
              /\ zoomedProject' = zoomedProject
              /\ context'.videoNonce = context.videoNonce]_vars

\* zoomed by the only navigation so far, then pressed where no tap could have
\* ended on the zoomed cell and released: the release did nothing
C10_Witness ==
    /\ context.renderer
    /\ NoFrameSinceZoom
    /\ ~context.isDragging
    /\ context.videoNonce = 2
    /\ \A p \in Points : GestureSq(p) < 100 => CellAt(p) # context.zoomedCellId

\* C11: panning is suppressed while zoomed: with isZoomed true neither a frame
\* (even with isDragging true and the pointer away from where it was pressed)
\* nor a wheel event changes targetOffset; a step that changes targetOffset
\* while zoomed is a release that navigated or unzoomed.
C11_NoPanWhileZoomed ==
    [][(context.renderer /\ context.isZoomed) =>
          /\ Step(animate(World)) => context'.targetOffset = context.targetOffset
          /\ \A e \in WheelEvents :
                Step(onWheel(World, e)) => context'.targetOffset = context.targetOffset
          /\ context'.targetOffset # context.targetOffset =>
                \E p \in Points :
                    Released(p) /\ context'.videoNonce = context.videoNonce + 1]_vars

\* zoomed with the pointer held down and moved away from where it was
\* pressed, a frame having run while zoomed, and the view still centred on the
\* zoomed cell
C11_Witness ==
    /\ context.renderer
    /\ context.isZoomed
    /\ context.isDragging
    /\ context.targetMousePos \in MovePoints
    /\ context.previousMouse # context.targetMousePos
    /\ context.zoomProgress > 0
    /\ context.targetOffset = cellCentre(context.zoomedCellId, uniforms.uCellSize)

\* C12: after unzoom, targetDistortion equals the configured distortionStrength,
\* for every configured value between 0 and 2 and not only the default 1.0.
C12_UnzoomRestoresConfigured ==
    [][(context.renderer /\ context.isZoomed /\ ~context'.isZoomed) =>
          context'.targetDistortion = props.distortionStrength]_vars

\* C13: zoom-in and zoom-out alternate.  lastOffset and lastZoom change only
\* in a step that zooms in from not zoomed, never in a navigation between
\* cells while zoomed; isZoomed changes only in a release; and a release while
\* not zoomed either zooms in or requests nothing and restores nothing, so
\* unzoom runs only while zoomed and never before the first zoom-in.
C13_ZoomAlternates ==
    [][context.renderer =>
          /\ (context'.lastOffset # context.lastOffset
                  \/ context'.lastZoom # context.lastZoom) =>
                (~context.isZoomed /\ context'.isZoomed)
          /\ context'.isZoomed # context.isZoomed => \E p \in Points : Released(p)
          /\ \A p \in Points :
                (Released(p) /\ ~context.isZoomed /\ ~context'.isZoomed) =>
                    /\ context'.videoNonce = context.videoNonce
                    /\ context'.targetOffset = context.targetOffset
                    /\ context'.targetZoom = context.targetZoom
                    /\ context'.targetDistortion = context.targetDistortion]_vars

\* zoomed in from a panned view and then swiped to a neighbour cell, the
\* snapshot still holding the panned offset and the zoom of before the zoom-in
C13_Witness ==
    /\ context.renderer
    /\ NoFrameSinceZoom
    /\ context.videoNonce = 3
    /\ context.lastOffset # Vec(0, 0)
    /\ context.lastZoom = defaultZoomLevel
    /\ context.targetOffset # context.lastOffset
    /\ \A p \in Points : context.zoomedCellId # CellAt(p)

\* C14: isDragging becomes true only in a PointerDown, and stays true only
\* until the next release: every handled PointerUp, and every PointerLeave while
\* dragging, ends with isDragging false, whatever the gesture and whether or
\* not it navigated or unzoomed; nothing else ends a drag, and before the
\* renderer exists no event starts one.
C14_DraggingBracketed ==
    [][/\ ~context.renderer => ~context'.isDragging
       /\ context.renderer =>
             /\ (~context.isDragging /\ context'.isDragging) =>
                   \E p \in Points : Step(onPointerDown(World, p))
             /\ (context.isDragging /\ ~context'.isDragging) =>
                   \E p \in Points : Released(p)
             /\ \A p \in Points : Released(p) => ~context'.isDragging
             /\ \A p \in Points :
                   (context.isDragging /\ Step(onPointerLeave(World, p))) =>
                       ~context'.isDragging]_vars

\* not dragging after a drag: since the last press a frame panned the grid
\* (only a frame with isDragging true moves previousMouse off clickStart), and
\* a release has ended the drag
C14_Witness ==
    /\ context.renderer
    /\ ~context.isDragging
    /\ cursor = "grab"
    /\ context.clickStart \in Points
    /\ context.previousMouse # context.clickStart
    /\ context.previousMouse = context.targetMousePos

----------------------------------------------------------------------------
\* Claims about the integrator (SpecIntegrator)

\* frames run since the target was set
Steps == uniforms.uTime \div timeStep - 1

\* squared distance from offset to targetOffset
DistSq ==
    (context.targetOffset.x - context.offset.x) * (context.targetOffset.x - context.offset.x)
        + (context.targetOffset.y - context.offset.y) * (context.targetOffset.y - context.offset.y)

\* the distance counted as having arrived: 0.012, just above the step the
\* thousandths can resolve
Tolerance == FixedPoint \div 100 + 2

\* the frame from which offset stays within Tolerance of the target
SettleSteps == MaxSteps - 5

\* each axis of offset is within Tolerance of the target
Settled ==
    /\ Abs(context.targetOffset.x - context.offset.x) <= Tolerance
    /\ Abs(context.targetOffset.y - context.offset.y) <= Tolerance

\* C15 as claimed: with zero initial velocity and a fixed targetOffset, every
\* frame leaves the distance from offset to targetOffset no larger than it was
\* (no overshoot), and after a bounded number of frames the distance is within
\* tolerance.
C15_MonotoneApproach ==
    [][/\ DistSq' <= DistSq
       /\ Steps' >= SettleSteps => Settled']_vars

\* C15 amended: the spring is under-damped, so the approach is not monotone.
\* The distance shrinks at every frame of the first 14, offset then passes the
\* target; from frame 16 on each axis is within a sixteenth of its initial
\* distance (plus Tolerance), no frame takes offset farther from the target
\* than it started, and from frame SettleSteps on offset is within Tolerance.
C15_BouncyApproach ==
    [][/\ Steps' <= 14 => DistSq' <= DistSq
       /\ DistSq' <= context.targetOffset.x * context.targetOffset.x
                        + context.targetOffset.y * context.targetOffset.y
       /\ Steps' >= 16 =>
             /\ 16 * Abs(context'.targetOffset.x - context'.offset.x)
                    <= Abs(context.targetOffset.x) + 16 * Tolerance
             /\ 16 * Abs(context'.targetOffset.y - context'.offset.y)
                    <= Abs(context.targetOffset.y) + 16 * Tolerance
       /\ Steps' >= SettleSteps => Settled']_vars

\* offset has passed the target on the x axis and is beyond Tolerance on the
\* far side of it
C15_Witness ==
    /\ Steps >= 15
    /\ context.targetOffset.x > 0
    /\ context.offset.x > context.targetOffset.x + Tolerance

----------------------------------------------------------------------------
\* Claims about the order of a frame (Spec)

\* the step is a frame
Animated == context.renderer /\ Step(animate(World))

\* the uniforms of the next state are the smoothed values of the next state
UniformsPushed ==
    /\ uniforms'.uZoom = context'.zoom
    /\ uniforms'.uDistortionStrength = context'.distortion
    /\ uniforms'.uZoomProgress = context'.zoomProgress
    /\ uniforms'.uTime = uniforms.uTime + timeStep

\* C16 as claimed: within one frame the drag pan of targetOffset comes before
\* the spring integration, which consumes the pan made in that frame, and the
\* integration comes before the uniform push.
C16_PanBeforeIntegration ==
    [][Animated =>
          /\ context'.targetOffset = dragPan(World).context.targetOffset
          /\ context'.offset = physics(dragPan(World)).context.offset
          /\ context'.offsetVelocity = physics(dragPan(World)).context.offsetVelocity
          /\ UniformsPushed]_vars

\* C16 amended: within one frame the spring and lerp integration comes first
\* and works on the targetOffset left by the frame before; the drag pan comes
\* after it (and after the hover update), so the pan made in a frame is
\* consumed by the next frame; the uniform push comes after both.
C16_IntegrationBeforePan ==
    [][Animated =>
          /\ context'.offset = physics(World).context.offset
          /\ context'.offsetVelocity = physics(World).context.offsetVelocity
          /\ context'.zoom = physics(World).context.zoom
          /\ context'.targetOffset = dragPan(physics(World)).context.targetOffset
          /\ UniformsPushed]_vars

\* a frame has panned the grid (previousMouse has left clickStart for the
\* pointer position and targetOffset has moved) and offset is still at rest
C16_Witness ==
    /\ context.renderer
    /\ context.isDragging
    /\ context.previousMouse # context.clickStart
    /\ context.previousMouse = context.targetMousePos
    /\ context.targetOffset # Vec(0, 0)
    /\ context.offset = Vec(0, 0)
    /\ context.offsetVelocity = Vec(0, 0)

----------------------------------------------------------------------------
\* C17: for every position of the canvas and every camera state, the cell the
\* CPU derives by screenToWorld and floor(world / cellSize) is the cell the
\* fragment shader derives for that position in getSceneColor.
C17_CellAgreement ==
    probe # Null => probe.gpu.cellId = probe.cpu.cellId

\* C17 as the code has it: the shader's cell is the cell of the CPU's world
\* coordinate moved along both axes by the ripple, which is at most 0.002 world
\* units and is zero when uOptimizeMobile is set; so the two cells are equal
\* with uOptimizeMobile set or a ripple of zero, and the same or neighbours
\* otherwise.
C17_AgreeUpToRipple ==
    probe # Null =>
        LET shift == probe.gpu.ripple
            moved == Vec(probe.cpu.worldCoord.x + shift, probe.cpu.worldCoord.y + shift)
        IN  /\ Abs(shift) <= 2
            /\ probe.uniforms.uOptimizeMobile => shift = 0
            /\ probe.gpu.cellId = cellIdOf(moved, probe.uniforms.uCellSize)
            /\ shift = 0 => probe.gpu.cellId = probe.cpu.cellId
            /\ Abs(probe.gpu.cellId.x - probe.cpu.cellId.x) <= 1
            /\ Abs(probe.gpu.cellId.y - probe.cpu.cellId.y) <= 1

\* a desktop frame whose ripple carries the fragment at the centre of the canvas
\* over a cell boundary
C17_Witness ==
    /\ probe # Null
    /\ ~probe.uniforms.uOptimizeMobile
    /\ probe.gpu.ripple # 0
    /\ probe.gpu.cellId # probe.cpu.cellId

----------------------------------------------------------------------------
\* the atlas layers of the probed fragment: image (unless the video plays in
\* the cell) and text
AtlasLayers ==
    IF probe = Null THEN {}
    ELSE {layer \in {probe.gpu.image, probe.gpu.text} :
            layer # Null /\ layer.sampler \in {"uImageAtlas", "uTextAtlas"}}

\* the index (from 0) of a project of the list
IndexOf(project) == (CHOOSE i \in DOMAIN projects : projects[i] = project) - 1

\* the index half of C18: the shader's texIndex is the index of the project
\* getProjectByCellId returns for the shader's cell
IndexAligned ==
    (probe # Null /\ probe.uniforms.uTextureCount >= 1) =>
        \A layer \in AtlasLayers :
            layer.texIndex = IndexOf(getProjectByCellId(probe.gpu.cellId, projects))

\* C18: with textureCount = N >= 1, for every cell id (negative components
\* included) the atlas index the shader computes for image and text is the
\* index of the project getProjectByCellId returns, and the atlas slot the
\* shader samples for that index holds what createTextureAtlas drew for that
\* project, so the image and text shown in a cell are that project's.
C18_AtlasAligned ==
    (probe # Null /\ probe.uniforms.uTextureCount >= 1) =>
        \A layer \in AtlasLayers :
            LET project == getProjectByCellId(probe.gpu.cellId, projects)
            IN  /\ layer.texIndex = IndexOf(project)
                /\ layer.colour = project

----------------------------------------------------------------------------
\* C19: with an empty project list (textureCount = 0) the render path is
\* guarded: no atlas index is computed with a modulo or division by zero, the
\* image and text layers contribute nothing, and every fragment shows only
\* background and grid.
C19_EmptyListGuarded ==
    (probe # Null /\ probe.uniforms.uTextureCount = 0) =>
        /\ probe.gpu.image = Null
        /\ probe.gpu.text = Null

----------------------------------------------------------------------------
\* C20: whenever the focused project changes from null to a project, keyboard
\* focus is moved to the external link element after the fixed 300 ms delay.
C20_FocusAfterDelay ==
    (zoomedProject # Null /\ ~link.focused) ~> link.focused

\* the focus effect's timer is pending
TimerPending == link.timers # <<>>

\* C20 as the code has it: every change of the focused project cancels the
\* pending timer, and a change to a project (from null or from another
\* project) starts a new one; focus moves to the link only when a timer has
\* run its 300 ms with the focused project unchanged, and a pending timer
\* does end by firing or by being cancelled.
C20_FocusWhenUndisturbed ==
    /\ [](TimerPending => zoomedProject # Null /\ link.timers[1].elapsed < focusDelay)
    /\ [][zoomedProject' # zoomedProject =>
            /\ link'.timers = IF zoomedProject' # Null THEN <<[elapsed |-> 0]>> ELSE <<>>
            /\ link'.focused = link.focused]_vars
    /\ [][(link'.focused /\ ~link.focused) =>
            /\ TimerPending
            /\ link.timers[1].elapsed + TimerTick >= focusDelay
            /\ zoomedProject' = zoomedProject]_vars
    /\ (TimerPending /\ ~link.focused) ~> (link.focused \/ ~TimerPending)

\* the timer has fired with a project in focus
C20_Witness ==
    /\ link.focused
    /\ ~TimerPending
    /\ zoomedProject # Null
    /\ context.isZoomed

----------------------------------------------------------------------------
\* Claims about setup without the graphics runtime (Spec)

\* every pointer and wheel handler, and the mount effects, leave the world as
\* it is
HandlersInert ==
    /\ mount(World) = World
    /\ textureBuilds = InitialTextures
    /\ loop = InitialLoop
    /\ \A p \in Points :
        /\ onPointerDown(World, p) = World
        /\ onPointerUp(World, p) = World
        /\ onPointerLeave(World, p) = World
    /\ \A p \in MovePoints : onPointerMove(World, p) = World
    /\ \A e \in WheelEvents : onWheel(World, e) = World

\* C21: if window.THREE is unavailable at setup, setup aborts before
\* constructing any state: the context keeps its initial values,
\* isThreeInitialized stays false, the frame loop, the video element and the
\* atlas build never start, and every pointer and wheel event is a no-op.
C21_InertWithoutRuntime ==
    ~threeLoaded =>
        /\ context = InitialContext
        /\ ~isThreeInitialized
        /\ ~ENABLED Frame
        /\ uniforms = Null
        /\ video = Null
        /\ pending = {}
        /\ zoomedProject = Null
        /\ cursor = "grab"
        /\ HandlersInert

\* the runtime is missing and the handlers have been tried
C21_Witness ==
    /\ ~threeLoaded
    /\ ~isThreeInitialized
    /\ context.videoNonce = 0
    /\ HandlersInert

----------------------------------------------------------------------------
\* Claims about stalled and failing media requests

\* the call of the latest request is suspended at an await
CurrentStalled(c) == c \in pending /\ c.nonce = context.videoNonce

\* C22: while the latest request's load or play has not settled,
\* uIsVideoActive is false, and a frame still runs: it leaves the call
\* suspended and uIsVideoActive false.
C22_StalledStaysInactive ==
    \A c \in pending :
        CurrentStalled(c) =>
            /\ ~uniforms.uIsVideoActive
            /\ c \in animate(World).pending
            /\ ~animate(World).uniforms.uIsVideoActive

\* frames have run while an earlier request is still stalled at its load, and a
\* later request has become active
C22_Witness ==
    /\ isThreeInitialized
    /\ uniforms.uIsVideoActive
    /\ uniforms.uTime > timeStep
    /\ \E c \in pending : c.pc = "load" /\ c.nonce < context.videoNonce

----------------------------------------------------------------------------
\* the step makes a setVideoState call on the mounted grid
CallMade == isThreeInitialized' /\ context'.videoNonce # context.videoNonce

\* C23: every setVideoState call made after setup increments videoNonce by
\* exactly one, sets uIsVideoActive to false and leaves the video element
\* paused when it reaches its first await or returns; videoNonce never
\* decreases and is written nowhere else.
C23_CallPauses ==
    [][/\ context'.videoNonce >= context.videoNonce
       /\ CallMade =>
            /\ context'.videoNonce = context.videoNonce + 1
            /\ ~uniforms'.uIsVideoActive
            /\ video'.paused]_vars

\* C23 as the code has it: the call increments videoNonce by one, sets
\* uIsVideoActive to false and pauses the element; when the requested video
\* is already the element's src it skips the load and calls play() before its
\* first await, so the element is left playing (its call suspended at the play
\* await), and paused in every other case.
C23_CallPausesUnlessSameSrc ==
    [][/\ context'.videoNonce >= context.videoNonce
       /\ CallMade =>
            /\ context'.videoNonce = context.videoNonce + 1
            /\ ~uniforms'.uIsVideoActive
            /\ video'.paused <=>
                 \A c \in pending' : c.nonce = context'.videoNonce => c.pc = "load"
            /\ ~video'.paused => video'.src = video.src]_vars

\* the latest call found its video already in the element (the call before it
\* set it and still waits for its load) and went straight to play()
C23_Witness ==
    /\ isThreeInitialized
    /\ ~uniforms.uIsVideoActive
    /\ ~video.paused
    /\ \E c, d \in pending :
        /\ CurrentStalled(c) /\ c.pc = "play"
        /\ d.nonce = c.nonce - 1 /\ d.pc = "load" /\ d.newSrc = c.newSrc

----------------------------------------------------------------------------
\* the cell resolves to no media reference: a null cell id, an empty project
\* list, or a project without a video
NoMedia(id) ==
    \/ getProjectByCellId(id, projects) = Null
    \/ getProjectByCellId(id, projects).video = 0

\* C24: a setVideoState call whose cell resolves to no media reference stops
\* after deactivating: it takes a nonce, sets uIsVideoActive to false and
\* pauses, and it does not change the element's src, does not write
\* uHoveredCellId and does not call load or play (no call is left suspended).
C24_NoMediaStops ==
    \A id \in VideoCells \cup {Null} :
        NoMedia(id) =>
            LET w == setVideoState(World, id)
            IN  /\ w.context.videoNonce = context.videoNonce + 1
                /\ ~w.uniforms.uIsVideoActive
                /\ w.video.paused
                /\ w.video.src = video.src
                /\ w.uniforms.uHoveredCellId = uniforms.uHoveredCellId
                /\ w.pending = pending
                /\ w.context = [context EXCEPT !.videoNonce = @ + 1]

\* calls have been made, the last one for a cell without media after a call
\* that plays a video: the element keeps that video as its src, paused
C24_Witness ==
    /\ context.videoNonce >= 2
    /\ ~uniforms.uIsVideoActive
    /\ video.paused
    /\ video.src # 0
    /\ \A c \in pending : c.nonce < context.videoNonce

----------------------------------------------------------------------------
\* The texture manager when the projects prop is replaced: the effect runs
\* again for each new list, and each build ends whenever its images have
\* settled

ProjectLists == {<<>>, ProjectList(1), ProjectList(2), GridProjects}

InitTextures ==
    /\ threeLoaded = TRUE
    /\ projects \in ProjectLists
    /\ props = DefaultProps
    /\ isMobile = FALSE
    /\ probe = Null
    /\ isThreeInitialized = mount(InitialWorld).isThreeInitialized
    /\ context = mount(InitialWorld).context
    /\ uniforms = mount(InitialWorld).uniforms
    /\ video = mount(InitialWorld).video
    /\ pending = mount(InitialWorld).pending
    /\ zoomedProject = mount(InitialWorld).zoomedProject
    /\ cursor = mount(InitialWorld).cursor
    /\ lookupId = Null
    /\ lookupResult = Null
    /\ link = mount(InitialWorld).link
    /\ textureBuilds = mount(InitialWorld).textureBuilds
    /\ loop = mount(InitialWorld).loop

\* the parent renders the component with another list: the effects that
\* depend on projects run again, the texture build and (through
\* setVideoState) the animation loop
ReplaceProjects ==
    \E list \in ProjectLists \ {projects} :
        LET w == rerender(World, list)
        IN  /\ textureBuilds.started < MaxBuilds
            /\ projects' = list
            /\ context' = w.context
            /\ uniforms' = w.uniforms
            /\ video' = w.video
            /\ pending' = w.pending
            /\ zoomedProject' = w.zoomedProject
            /\ cursor' = w.cursor
            /\ link' = focusEffect(zoomedProject, w).link
            /\ textureBuilds' = w.textureBuilds
            /\ loop' = w.loop
            /\ UNCHANGED <<threeLoaded, props, isMobile, probe, isThreeInitialized,
                           lookupId, lookupResult>>

NextTextures ==
    \/ ReplaceProjects
    \/ BuildComplete

SpecTextures == InitTextures /\ [][NextTextures]_vars

\* the elements of a sequence
Range(seq) == {seq[i] : i \in DOMAIN seq}

\* the atlases of the builds that have ended
BuiltAtlases ==
    {[build |-> n, isText |-> t] :
        n \in (1..textureBuilds.started) \ {b.build : b \in textureBuilds.running},
        t \in BOOLEAN}

\* C26: the atlas swap is point-in-time.  Every atlas a finished build made is
\* either installed or disposed of, never both, and none is disposed of twice:
\* an install disposes of exactly the two atlases it replaces.  The two
\* atlases and uTextureCount are replaced together: in every state they are
\* all unset, or the image and the text atlas of one build with uTextureCount
\* sub-images each.
C26_PointInTimeSwap ==
    /\ Range(installedAtlases(World)) \cap Range(textureBuilds.disposed) = {}
    /\ Range(installedAtlases(World)) \cup Range(textureBuilds.disposed) = BuiltAtlases
    /\ Cardinality(Range(textureBuilds.disposed)) = Len(textureBuilds.disposed)
    /\ (uniforms.uImageAtlas = Null) = (uniforms.uTextAtlas = Null)
    /\ uniforms.uImageAtlas = Null => uniforms.uTextureCount = 0
    /\ uniforms.uImageAtlas # Null =>
          /\ uniforms.uImageAtlas.id.build = uniforms.uTextAtlas.id.build
          /\ ~uniforms.uImageAtlas.id.isText
          /\ uniforms.uTextAtlas.id.isText
          /\ Len(uniforms.uImageAtlas.canvas) = uniforms.uTextureCount
          /\ Len(uniforms.uTextAtlas.canvas) = uniforms.uTextureCount

\* two swaps have happened: the atlases of two builds are disposed of and
\* those of a third are installed
C26_Witness ==
    /\ Len(textureBuilds.disposed) = 4
    /\ uniforms.uImageAtlas # Null
    /\ uniforms.uImageAtlas.id.build \notin
          {textureBuilds.disposed[i].build : i \in DOMAIN textureBuilds.disposed}

\* C28: once no build is running, the installed atlases and uTextureCount
\* are those of the current project list: none and 0 for the empty list, and
\* otherwise one sub-image per project, each the project's image or its
\* placeholder, with uTextureCount = Len(projects).
C28_LatestListInstalled ==
    textureBuilds.running = {} =>
        /\ uniforms.uTextureCount = Len(projects)
        /\ Len(projects) = 0 => uniforms.uImageAtlas = Null /\ uniforms.uTextAtlas = Null
        /\ Len(projects) > 0 =>
              /\ uniforms.uImageAtlas # Null
              /\ uniforms.uTextAtlas # Null
              /\ Len(uniforms.uImageAtlas.canvas) = Len(projects)
              /\ \A i \in DOMAIN projects :
                    /\ uniforms.uImageAtlas.canvas[i].image \in {Placeholder, projects[i]}
                    /\ uniforms.uTextAtlas.canvas[i].image = projects[i]

----------------------------------------------------------------------------
\* The cell of the most recent setVideoState call that had media: while
\* zoomed the calls come from navigateToCell, for zoomedCellId; otherwise
\* from the frame's hover, for hoveredCellId
LatestCell ==
    IF context.isZoomed THEN context.zoomedCellId ELSE context.hoveredCellId

\* C27: whenever the video is shown (uIsVideoActive), uHoveredCellId is the
\* cell of the most recently issued setVideoState call and the video
\* element's src is the video of that cell's project.
C27_ActiveShowsLatest ==
    isThreeInitialized /\ uniforms.uIsVideoActive =>
        /\ uniforms.uHoveredCellId = LatestCell
        /\ getProjectByCellId(LatestCell, projects) # Null
        /\ video.src = getProjectByCellId(LatestCell, projects).video

----------------------------------------------------------------------------
\* a value moved by 0.1 of its distance to a target
Approach(value, target) == value + FxMul(target - value, 100)

\* C29: a frame, whatever isZoomed and isDragging are, takes
\* force = (targetOffset - offset) * 0.05 from the offset before the frame,
\* offsetVelocity = (offsetVelocity + force) * 0.75, and adds the new velocity
\* to the offset; zoom, distortion, zoomProgress (toward 1 if zoomed, else 0)
\* and mousePos each move by 0.1 of their distance to their target.  A zoomed
\* frame does no hover recomputation, and a frame that is zoomed or not
\* dragging does no drag pan.
C29_FramePhysics ==
    context.renderer =>
        LET c == context
            after == animate(World).context
            forceX == FxMul(c.targetOffset.x - c.offset.x, 50)
            forceY == FxMul(c.targetOffset.y - c.offset.y, 50)
            velocityX == FxMul(c.offsetVelocity.x + forceX, 750)
            velocityY == FxMul(c.offsetVelocity.y + forceY, 750)
        IN  /\ after.offsetVelocity = Vec(velocityX, velocityY)
            /\ after.offset = Vec(c.offset.x + velocityX, c.offset.y + velocityY)
            /\ after.zoom = Approach(c.zoom, c.targetZoom)
            /\ after.distortion = Approach(c.distortion, c.targetDistortion)
            /\ after.zoomProgress =
                  Approach(c.zoomProgress, IF c.isZoomed THEN FixedPoint ELSE 0)
            /\ after.mousePos =
                  Vec(Approach(c.mousePos.x, c.targetMousePos.x * FixedPoint),
                      Approach(c.mousePos.y, c.targetMousePos.y * FixedPoint))
            /\ c.isZoomed =>
                  /\ after.hoveredCellId = c.hoveredCellId
                  /\ after.videoNonce = c.videoNonce
            /\ c.isZoomed \/ ~c.isDragging =>
                  /\ after.targetOffset = c.targetOffset
                  /\ after.previousMouse = c.previousMouse

\* frames have run while zoomed with the pointer down: the offset is moving
\* toward the zoomed cell and the zoom has begun
C29_Witness ==
    /\ context.renderer
    /\ context.isZoomed
    /\ context.isDragging
    /\ context.offsetVelocity # Vec(0, 0)
    /\ context.zoomProgress > 0
    /\ context.zoom < defaultZoomLevel

----------------------------------------------------------------------------
\* the cell the frame finds under targetMousePos, with the camera as the
\* frame's physics leaves it
CellUnderPointer ==
    cellIdOf(screenToWorld(context.targetMousePos, physics(World)), uniforms.uCellSize)

\* C30: a frame issues a media request exactly when the system is not zoomed
\* and the cell under targetMousePos differs from hoveredCellId; it then
\* sets hoveredCellId to that cell and issues one request, for that cell.  A
\* frame that issues none leaves hoveredCellId, the video element, the
\* suspended calls and uIsVideoActive alone; so does every zoomed frame.
C30_HoverRequest ==
    context.renderer =>
        LET after == animate(World)
            issued == after.context.videoNonce - context.videoNonce
        IN  /\ issued \in {0, 1}
            /\ issued = 1 <=>
                  ~context.isZoomed /\ CellUnderPointer # context.hoveredCellId
            /\ issued = 1 =>
                  /\ after.context.hoveredCellId = CellUnderPointer
                  /\ after = pushUniforms(dragPan(
                        setVideoState([physics(World) EXCEPT
                                           !.context.hoveredCellId = CellUnderPointer],
                                      CellUnderPointer)))
                  /\ \A c \in after.pending \ pending :
                        /\ c.cellId = CellUnderPointer
                        /\ c.nonce = context.videoNonce + 1
            /\ issued = 0 =>
                  /\ after.context.hoveredCellId = context.hoveredCellId
                  /\ after.pending = pending
                  /\ after.video = video
                  /\ after.uniforms.uIsVideoActive = uniforms.uIsVideoActive
                  /\ after.uniforms.uHoveredCellId = uniforms.uHoveredCellId
            /\ context.isZoomed => issued = 0

\* the one request since the mount came from a frame's hover: the pointer
\* has moved to another cell, the system has never been zoomed
C30_Witness ==
    /\ context.renderer
    /\ ~context.isZoomed
    /\ context.zoomProgress = 0
    /\ context.videoNonce = 2
    /\ uniforms.uTime > timeStep
    /\ context.hoveredCellId # Null
    /\ context.hoveredCellId # mount(InitialWorld).context.hoveredCellId

----------------------------------------------------------------------------
\* C25: a rejected load() or play() is caught inside setVideoState: the call
\* ends, and the frame loop's context, the video element and every uniform
\* (uIsVideoActive among them) are as they were, so a failing request never
\* shows the video and the next frame runs as it would have.  An image whose
\* load fails is replaced by a placeholder: whichever loads of a running build
\* fail, the build ends with an atlas of N sub-images, the placeholders in
\* the places of the failed images, and uTextureCount = N.
C25_RejectionSwallowed ==
    \A c \in pending :
        LET w == caught(World, c)
        IN  /\ w.pending = pending \ {c}
            /\ w.uniforms = uniforms
            /\ w.context = context
            /\ w.video = video
            /\ animate(w).context = animate(World).context

C25_PlaceholderForFailed ==
    /\ \A b \in textureBuilds.running : \A failed \in SUBSET DOMAIN b.list :
          LET w == updateData(World, b, failed)
              atlas == w.uniforms.uImageAtlas
          IN  /\ b \notin w.textureBuilds.running
              /\ w.uniforms.uTextureCount = Len(b.list)
              /\ Len(atlas.canvas) = Len(b.list)
              /\ \A i \in DOMAIN b.list :
                    atlas.canvas[i].image =
                        IF i \in failed THEN Placeholder ELSE b.list[i]
              /\ Len(w.uniforms.uTextAtlas.canvas) = Len(b.list)
    /\ uniforms.uImageAtlas # Null =>
          /\ uniforms.uTextureCount = Len(projects)
          /\ Len(uniforms.uImageAtlas.canvas) = Len(projects)
          /\ \A i \in DOMAIN projects :
                uniforms.uImageAtlas.canvas[i].image \in {Placeholder, projects[i]}

C25_ErrorsContained == C25_RejectionSwallowed /\ C25_PlaceholderForFailed

\* the only request with media was rejected at its load, the video is not
\* shown, and a build with a failed image has installed a full atlas
C25_Witness ==
    /\ context.videoNonce = 2
    /\ pending = {}
    /\ video.src # 0
    /\ video.paused
    /\ ~uniforms.uIsVideoActive
    /\ uniforms.uImageAtlas # Null
    /\ uniforms.uTextureCount = Len(projects)
    /\ \E i \in DOMAIN projects : uniforms.uImageAtlas.canvas[i].image = Placeholder
    /\ \E i \in DOMAIN projects : uniforms.uImageAtlas.canvas[i].image = projects[i]

----------------------------------------------------------------------------
\* C31: with a fixed non-empty project list, the focused project
\* (zoomedProject) is null whenever isZoomed is false and is
\* getProjectByCellId(zoomedCellId) whenever isZoomed is true; unzoom clears
\* the focused project and issues one media request, for null: the video is
\* stopped and no call is left suspended for it.
C31_FocusedProjectFollowsZoom ==
    /\ ~context.isZoomed => zoomedProject = Null
    /\ context.isZoomed =>
          /\ context.zoomedCellId # Null
          /\ zoomedProject # Null
          /\ zoomedProject = getProjectByCellId(context.zoomedCellId, projects)
    /\ isThreeInitialized =>
          LET after == unzoom(World)
          IN  /\ after.zoomedProject = Null
              /\ ~after.context.isZoomed
              /\ after.context.videoNonce = context.videoNonce + 1
              /\ ~after.uniforms.uIsVideoActive
              /\ after.video.paused
              /\ \A c \in after.pending : c.nonce < after.context.videoNonce

\* a tap has unzoomed after a zoomed frame: nothing is focused any more
C31_Witness ==
    /\ context.renderer
    /\ Len(projects) > 0
    /\ ~context.isZoomed
    /\ context.zoomProgress > 0
    /\ context.zoomedCellId = Null
    /\ zoomedProject = Null
    /\ ~uniforms.uIsVideoActive

----------------------------------------------------------------------------
\* C32: with a constant cell size, isZoomed is true exactly when zoomedCellId
\* is non-null, exactly when targetZoom = 0.3 and exactly when
\* targetDistortion = 0; and while isZoomed, targetOffset is the centre
\* (zoomedCellId + 0.5) * cellSize of the zoomed cell.
C32_ZoomStateConsistent ==
    /\ context.isZoomed <=> context.zoomedCellId # Null
    /\ context.isZoomed <=> context.targetZoom = 300
    /\ context.isZoomed <=> context.targetDistortion = 0
    /\ context.isZoomed =>
          context.targetOffset =
              Vec(FxMul(context.zoomedCellId.x * FixedPoint + 500, props.cellSize),
                  FxMul(context.zoomedCellId.y * FixedPoint + 500, props.cellSize))

\* zoomed, with a zoomed frame run, after a pan by the wheel or a drag had
\* moved the camera: the snapshot differs from the start offset, and the
\* zoomed cell is not the one the camera was centred in
C32_Witness ==
    /\ context.renderer
    /\ context.isZoomed
    /\ context.zoomProgress > 0
    /\ context.lastOffset # mount(InitialWorld).context.targetOffset
    /\ context.targetOffset # cellCentre(cellIdOf(context.lastOffset, props.cellSize),
                                          props.cellSize)

----------------------------------------------------------------------------
\* The camera over many frames: taps zoom in and out at any frame

InitCamera ==
    /\ threeLoaded = TRUE
    /\ projects = GridProjects
    /\ props = DefaultProps
    /\ isMobile = FALSE
    /\ probe = Null
    /\ isThreeInitialized = mount(InitialWorld).isThreeInitialized
    /\ context = mount(InitialWorld).context
    /\ uniforms = mount(InitialWorld).uniforms
    /\ video = mount(InitialWorld).video
    /\ pending = mount(InitialWorld).pending
    /\ zoomedProject = mount(InitialWorld).zoomedProject
    /\ cursor = mount(InitialWorld).cursor
    /\ lookupId = Null
    /\ lookupResult = Null
    /\ link = mount(InitialWorld).link
    /\ textureBuilds = mount(InitialWorld).textureBuilds
    /\ loop = mount(InitialWorld).loop

\* one more frame, up to MaxCameraFrames frames after the mount's own
CameraFrame ==
    /\ uniforms.uTime < (MaxCameraFrames + 1) * timeStep
    /\ animate(World).context.videoNonce <= MaxCameraCalls
    /\ Commit(animate(World))

\* a tap: the pointer goes down and up at one place, no frame in between
Tap ==
    \E p \in {Vec(100, 50)} :
        /\ context.videoNonce < MaxCameraCalls
        /\ Commit(onPointerUp(onPointerDown(World, p), p))

NextCamera ==
    \/ CameraFrame
    \/ Tap

SpecCamera == InitCamera /\ [][NextCamera]_vars

\* value lies between the two ends, whichever is the larger
Between(value, a, b) ==
    (a <= value /\ value <= b) \/ (b <= value /\ value <= a)

\* C33: the lerped camera values stay within the interval of their targets:
\* zoomProgress in [0, 1], zoom in [0.3, 1.0] and so above 0, distortion in
\* [0, 1]; and no frame takes one of them past its target: after the frame
\* each lies between its value before and the target.
C33_LerpWithinTargets ==
    /\ 0 <= context.zoomProgress /\ context.zoomProgress <= FixedPoint
    /\ 300 <= context.zoom /\ context.zoom <= 1000
    /\ 0 <= context.distortion /\ context.distortion <= 1000
    /\ LET after == animate(World).context
       IN  /\ Between(after.zoom, context.zoom, context.targetZoom)
           /\ Between(after.distortion, context.distortion, context.targetDistortion)
           /\ Between(after.zoomProgress, context.zoomProgress,
                       IF context.isZoomed THEN FixedPoint ELSE 0)

\* on the way back from a zoom: unzoomed after zoomed frames, every lerped
\* value strictly inside its interval and moving toward the unzoomed targets
C33_Witness ==
    /\ ~context.isZoomed
    /\ 0 < context.zoomProgress /\ context.zoomProgress < FixedPoint
    /\ 300 < context.zoom /\ context.zoom < 1000
    /\ 0 < context.distortion /\ context.distortion < 1000
    /\ animate(World).context.zoom > context.zoom
    /\ animate(World).context.zoomProgress < context.zoomProgress
    /\ uniforms.uTime >= 8 * timeStep

----------------------------------------------------------------------------
\* C34: after setup the exposed cursor style is "grabbing" exactly when
\* isDragging is true, and "grab" otherwise.
C34_CursorFollowsDragging ==
    context.renderer =>
        /\ cursor \in {"grab", "grabbing"}
        /\ cursor = "grabbing" <=> context.isDragging

\* the pointer is down again after a tap that zoomed in
C34_Witness ==
    /\ context.renderer
    /\ context.isZoomed
    /\ context.isDragging
    /\ cursor = "grabbing"

----------------------------------------------------------------------------
\* C35: a PointerUp received while isDragging is false performs no
\* navigation: isZoomed, zoomedCellId, targetOffset, targetZoom, lastOffset,
\* the focused project and videoNonce are as they were.
C35_StrayPointerUpIgnored ==
    context.renderer /\ ~context.isDragging =>
        \A p \in Points :
            LET after == onPointerUp(World, p)
            IN  /\ after.context.isZoomed = context.isZoomed
                /\ after.context.zoomedCellId = context.zoomedCellId
                /\ after.context.targetOffset = context.targetOffset
                /\ after.context.targetZoom = context.targetZoom
                /\ after.context.lastOffset = context.lastOffset
                /\ after.zoomedProject = zoomedProject
                /\ after.context.videoNonce = context.videoNonce

----------------------------------------------------------------------------
\* C36: while not zoomed, a PointerDown at any position followed by frames
\* with no PointerMove leaves targetOffset unchanged, whatever targetMousePos
\* was before the PointerDown: a gesture pans only by movement made after
\* it began.
C36_NoPanWithoutMove ==
    context.renderer /\ ~context.isZoomed =>
        \A p \in Points :
            LET pressed == onPointerDown(World, p)
            IN  /\ animate(pressed).context.targetOffset = context.targetOffset
                /\ animate(animate(pressed)).context.targetOffset = context.targetOffset

----------------------------------------------------------------------------
\* C37: while not zoomed, after every completed frame the most recent media
\* request is the one for the current hoveredCellId.  The requests of a zoomed
\* system are navigateToCell's and unzoom's, so the case to check is the
\* frame after an unzoom, whose request was for null: that frame issues a
\* request, and it is for the hoveredCellId it leaves, even when the cell
\* under the pointer is the hoveredCellId recorded before the zoom.
C37_FrameRerequestsAfterUnzoom ==
    isThreeInitialized /\ context.isZoomed =>
        LET unzoomed == unzoom(World)
            after == animate(unzoomed)
        IN  /\ after.context.videoNonce = unzoomed.context.videoNonce + 1
            /\ \A c \in after.pending \ unzoomed.pending :
                  c.cellId = after.context.hoveredCellId

----------------------------------------------------------------------------
\* a timer fires in this step: it stops being pending while the focused
\* project stays as it is
TimerFires ==
    /\ zoomedProject' = zoomedProject
    /\ Len(link'.timers) < Len(link.timers)

\* C39: keyboard focus is never moved to the link while the focused project
\* is null.  At most one focus timer is pending at any time, and none while
\* the focused project is null; when the focused project is cleared or
\* replaced, the timer that was pending is cancelled (the only timer left
\* is a new one, with its 300 ms still to run); and a timer fires, moving
\* focus to the link, only with a project in focus.
C39_NoFocusWithoutProject ==
    /\ [](Len(link.timers) <= 1)
    /\ [](zoomedProject = Null => link.timers = <<>>)
    /\ [][zoomedProject' # zoomedProject =>
            \A i \in DOMAIN link'.timers : link'.timers[i].elapsed = 0]_vars
    /\ [][TimerFires => zoomedProject # Null /\ link'.focused]_vars
    /\ [][link'.focused /\ ~link.focused => TimerFires]_vars

\* zoomed in and out again before the timer fired: the timer was cancelled
\* and focus has not moved
C39_Witness ==
    /\ context.renderer
    /\ zoomedProject = Null
    /\ ~context.isZoomed
    /\ context.lastOffset # Null
    /\ context.videoNonce >= 3
    /\ link.timers = <<>>
    /\ ~link.focused

----------------------------------------------------------------------------
\* The animation loop over the component's life: display refreshes, renders
\* with a new project array, pointer moves, unmount.

InitLoop ==
    /\ threeLoaded = TRUE
    /\ projects = ProjectList(2)
    /\ props = DefaultProps
    /\ isMobile = FALSE
    /\ probe = Null
    /\ isThreeInitialized = mount(InitialWorld).isThreeInitialized
    /\ context = mount(InitialWorld).context
    /\ uniforms = mount(InitialWorld).uniforms
    /\ video = mount(InitialWorld).video
    /\ pending = mount(InitialWorld).pending
    /\ zoomedProject = mount(InitialWorld).zoomedProject
    /\ cursor = mount(InitialWorld).cursor
    /\ lookupId = Null
    /\ lookupResult = Null
    /\ link = mount(InitialWorld).link
    /\ textureBuilds = mount(InitialWorld).textureBuilds
    /\ loop = mount(InitialWorld).loop

\* the display refreshes; the browser runs the frame callbacks pending
Refresh ==
    /\ uniforms.uTime + loop.pending * timeStep <= (MaxLoopFrames + 1) * timeStep
    /\ Commit(refresh(World))

\* the parent renders again and passes a new array with the same projects
Rerender ==
    /\ ~loop.unmounted
    /\ uniforms.uTime < (MaxLoopFrames + 1) * timeStep
    /\ Commit(rerender(World, projects))

\* the pointer moves over the grid
LoopPointerMove ==
    \E p \in {Vec(100, 50), Vec(150, 50)} :
        /\ ~loop.unmounted
        /\ Commit(onPointerMove(World, p))

\* the parent removes the component
Unmount ==
    /\ ~loop.unmounted
    /\ Commit(unmount(World))

NextLoop ==
    \/ Refresh
    \/ Rerender
    \/ LoopPointerMove
    \/ Unmount

SpecLoop == InitLoop /\ [][NextLoop]_vars

\* C38: at most one animation loop is live: at most one frame callback is
\* pending at any time, also when the loop's effect runs again for a new
\* project array, and none after unmount; and no more than one frame step is
\* applied per display refresh.
C38_OneStepPerRefresh ==
    /\ loop.pending <= 1
    /\ loop.steps <= 1
    /\ loop.unmounted => loop.pending = 0

====
